---- MODULE Spec2Model ----
(*****************************************************************************)
(* Users-Service: the tables Users, Friendships, UserInterests and           *)
(* UserSchedule and the handlers of routers/users.py and routers/admin.py    *)
(* that read and write them.                                                 *)
(*                                                                           *)
(* Spec         every handler that writes Friendships is one atomic step.    *)
(* SpecHistory  Spec, with the pairs of the removed rows recorded.           *)
(* SpecAccounts Spec with delete_user.                                       *)
(* SpecLists    Spec with get_pending_requests, get_sent_requests and        *)
(*              get_friends.                                                 *)
(* SpecSearch   Spec with search_users.                                      *)
(* SpecReads    Spec with the lists and search called by one user.           *)
(* SpecDirectory the User Directory handlers and the admin role update.      *)
(* SpecInterests sign-up, add_user_interests and get_user_interests.         *)
(* SpecSchedules sign-up and the three Schedule Ledger handlers.             *)
(* SpecConnections the store connection of each call of four handlers.       *)
(* SpecClaims   the role claim kept by the identity provider, written by     *)
(*              sync, create_user, update_user and the admin role update.    *)
(* SpecAuth     every handler called without the x-firebase-uid header.      *)
(* SpecRoutes   the router: a request is dispatched to the first route       *)
(*              whose method and path match, in registration order.          *)
(* SpecConc     send_friend_request runs statement by statement in several   *)
(*              concurrent requests; every SQL statement is one step and     *)
(*              reads the rows committed so far.                             *)
(* SpecAccept   accept_friend_request runs statement by statement in         *)
(*              several concurrent requests, in the same way.                *)
(* SpecRace     SpecAccept with reject_friend_request and remove_friend.     *)
(*                                                                           *)
(* The created_at column (assigned by the store, read only by ORDER BY and   *)
(* copied into responses) is not part of the state. Of the profile columns   *)
(* of Users, first_name, last_name, username and role are modelled; email    *)
(* and profile_picture are not. The type and title of a schedule entry are   *)
(* stored as sent and are not modelled.                                      *)
(*****************************************************************************)
EXTENDS Integers, FiniteSets, Sequences, TLC

\* ------------------------------------------------------------------ bounds
\* user ids 1..MaxUsers are assigned by AUTO_INCREMENT, never reused
MaxUsers == 3
\* friendship ids 1..MaxFriendships are assigned by AUTO_INCREMENT
MaxFriendships == 2
\* concurrent requests in flight (SpecConc)
MaxProcs == 2
\* schedule ids 1..MaxSchedules are assigned by AUTO_INCREMENT
MaxSchedules == 2

\* external identities the gateway may put in x-firebase-uid
Uids == {"alice", "bob", "carol"}
\* a missing header: request.headers.get returns None, which is falsy
NoHeader == ""
Headers == Uids \cup {NoHeader}

UserIds == 1..MaxUsers
FriendshipIds == 1..MaxFriendships
Procs == 1..MaxProcs
ScheduleIds == 1..MaxSchedules

VARIABLES
    Users,              \* table Users: rows [user_id, firebase_uid,
                        \*   first_name, last_name, username, role]
    nextUserId,         \* AUTO_INCREMENT of Users
    Friendships,        \* table Friendships: rows [friendship_id, user_id_1,
                        \*   user_id_2, requested_by, status]
    nextFriendshipId,   \* AUTO_INCREMENT of Friendships
    response,           \* the last completed call and what it returned
    everPending,        \* history: ids that have been seen with status pending
    removedPairs,       \* history: the pairs {a, b} whose row has been deleted
    pc,                 \* SpecConc: each request's position
    loc,                \* SpecConc: each request's local variables
    UserInterests,      \* table UserInterests: for each user_id the
                        \*   interest_id of its rows, in insertion order
    UserSchedule,       \* table UserSchedule: rows [schedule_id, user_id,
                        \*   start_time, end_time]
    nextScheduleId,     \* AUTO_INCREMENT of UserSchedule
    cnx,                \* the store connection of the last completed call:
                        \*   "none" (not acquired), "closed" or "open"
    firebase,           \* Identity Adapter: what set_user_role returns now
    claims,             \* Identity Adapter: the role claim of each identity
    request             \* SpecRoutes: the method and path of the last call

vars == <<Users, nextUserId, Friendships, nextFriendshipId, response,
          everPending, removedPairs, pc, loc, UserInterests, UserSchedule,
          nextScheduleId, cnx, firebase, claims, request>>
db == <<Users, nextUserId, Friendships, nextFriendshipId>>
conc == <<pc, loc>>
\* the tables and the bookkeeping no Friendship Engine or User Directory
\* handler is modelled to touch
other == <<UserInterests, UserSchedule, nextScheduleId, cnx, firebase,
           claims, request>>
\* what the Interest Catalog and Schedule Ledger handlers leave alone
engine == <<Friendships, nextFriendshipId, everPending, removedPairs, pc, loc,
            firebase, claims, request>>

\* ------------------------------------------------------------ responses
NoBody == {}

Resp(op, uid, arg, code, detail, body) ==
    [op |-> op, uid |-> uid, arg |-> arg, code |-> code, detail |-> detail,
     body |-> body]

\* mutant: the header is never tested
HeaderMissing_Never(h) == FALSE

\* get_firebase_uid_from_header: 401 when the header is missing or empty
HeaderMissing(h) == h = NoHeader
AuthRequired == "Authentication required - x-firebase-uid header missing"

\* ------------------------------------------------------------ statements
\* mutant: the lookup finds nobody
SelectUserByUid_Miss(U, uid) == {}

\* SELECT user_id FROM Users WHERE firebase_uid = %s
SelectUserByUid(U, uid) == {u \in U : u.firebase_uid = uid}

\* mutant: the WHERE clause forgotten, any user row answers
SelectUserById_NoWhere(U, id) == U

\* SELECT user_id FROM Users WHERE user_id = %s
SelectUserById(U, id) == {u \in U : u.user_id = id}

\* the first_name, last_name and username each identity sends to /users/sync
\* at its first login (UserSync; email and profile_picture, which no handler
\* reads back in a condition, are left out)
Profile(uid) ==
    CASE uid = "alice" -> [first_name |-> "al", last_name |-> "ito",
                           username |-> "ali"]
      [] uid = "bob"   -> [first_name |-> "bo", last_name |-> "lee",
                           username |-> "bob"]
      [] OTHER         -> [first_name |-> "ca", last_name |-> "roe",
                           username |-> "cal"]

\* mutant: the role comes out as admin
NewUserRow_Admin(id, uid, user) ==
    [user_id |-> id, firebase_uid |-> uid, first_name |-> user.first_name,
     last_name |-> user.last_name, username |-> user.username,
     role |-> "admin"]

\* a row of Users as the INSERT of sync_firebase_user and create_user writes
\* it: the profile columns of the request and default_role = "user"
NewUserRow(id, uid, user) ==
    [user_id |-> id, firebase_uid |-> uid, first_name |-> user.first_name,
     last_name |-> user.last_name, username |-> user.username,
     role |-> "user"]

\* mutant: the WHERE clause forgotten, every row rewritten
UpdateProfile_All(U, uid, user) ==
    {[u EXCEPT !.first_name = user.first_name, !.last_name = user.last_name,
               !.username = user.username] : u \in U}

\* UPDATE Users SET first_name = %s, last_name = %s, username = %s, ...
\* WHERE firebase_uid = %s
UpdateProfile(U, uid, user) ==
    {IF u.firebase_uid = uid
     THEN [u EXCEPT !.first_name = user.first_name,
                    !.last_name = user.last_name,
                    !.username = user.username]
     ELSE u : u \in U}

Min(a, b) == IF a <= b THEN a ELSE b
Max(a, b) == IF a >= b THEN a ELSE b

\* ------------------------------------------------ Friendships statements
\* mutant: only the ordering (from, to) is looked up
SelectExisting_OneOrder(F, from, to) ==
    {f \in F : f.user_id_1 = from /\ f.user_id_2 = to}

\* SELECT ... FROM Friendships WHERE (user_id_1 = from AND user_id_2 = to)
\*                                OR (user_id_1 = to AND user_id_2 = from)
SelectExisting(F, from, to) ==
    {f \in F : \/ (f.user_id_1 = from /\ f.user_id_2 = to)
               \/ (f.user_id_1 = to /\ f.user_id_2 = from)}

\* mutant: the pair stored as sent, not canonically
NewFriendshipRow_AsSent(id, from, to) ==
    [friendship_id |-> id, user_id_1 |-> from, user_id_2 |-> to,
     requested_by |-> from, status |-> "pending"]

\* mutant: requested_by records the target
NewFriendshipRow_ByTarget(id, from, to) ==
    [friendship_id |-> id, user_id_1 |-> Min(from, to),
     user_id_2 |-> Max(from, to), requested_by |-> to, status |-> "pending"]

\* mutant: the row is inserted as accepted
NewFriendshipRow_Accepted(id, from, to) ==
    [friendship_id |-> id, user_id_1 |-> Min(from, to),
     user_id_2 |-> Max(from, to), requested_by |-> from, status |-> "accepted"]

\* mutant: requested_by records user_id_1
NewFriendshipRow_ByFirst(id, from, to) ==
    [friendship_id |-> id, user_id_1 |-> Min(from, to),
     user_id_2 |-> Max(from, to), requested_by |-> Min(from, to),
     status |-> "pending"]

\* INSERT INTO Friendships (user_id_1, user_id_2, requested_by, status)
\* VALUES (min, max, from_user_id, 'pending'), with the id the store assigns
NewFriendshipRow(id, from, to) ==
    [friendship_id |-> id,
     user_id_1 |-> Min(from, to),
     user_id_2 |-> Max(from, to),
     requested_by |-> from,
     status |-> "pending"]

\* mutant: the WHERE clause forgotten, every row answers
SelectFriendshipById_NoWhere(F, id) == F

\* SELECT ... FROM Friendships WHERE friendship_id = %s
SelectFriendshipById(F, id) == {f \in F : f.friendship_id = id}

\* the columns the handlers' final SELECT returns: friendship_id, user_id_1,
\* user_id_2, status (created_at is not modelled; requested_by is not selected)
FriendshipResult(f) ==
    [friendship_id |-> f.friendship_id,
     user_id_1 |-> f.user_id_1,
     user_id_2 |-> f.user_id_2,
     status |-> f.status]

\* mutant: the 403 test left out
IsInvolved_NoCheck(f, uid) == TRUE

\* the negation of the handlers' 403 test
\*   friendship['user_id_1'] != current_user_id and
\*   friendship['user_id_2'] != current_user_id
IsInvolved(f, uid) == ~(f.user_id_1 # uid /\ f.user_id_2 # uid)

\* mutant: the UPDATE also rewrites requested_by
UpdateAccepted_Reassign(F, id) ==
    {IF f.friendship_id = id
        THEN [f EXCEPT !.status = "accepted", !.requested_by = f.user_id_1]
        ELSE f :
        f \in F}

\* mutant: the WHERE clause forgotten, every row accepted
UpdateAccepted_All(F, id) == {[f EXCEPT !.status = "accepted"] : f \in F}

\* UPDATE Friendships SET status = 'accepted' WHERE friendship_id = %s
UpdateAccepted(F, id) ==
    {IF f.friendship_id = id THEN [f EXCEPT !.status = "accepted"] ELSE f :
        f \in F}

\* mutant: the DELETE never issued
DeleteFriendship_Keep(F, id) == F

\* mutant: the WHERE clause forgotten, the table emptied
DeleteFriendship_All(F, id) == {}

\* DELETE FROM Friendships WHERE friendship_id = %s
DeleteFriendship(F, id) == {f \in F : f.friendship_id # id}

\* ------------------------------------------------------------------ Init
Init ==
    /\ Users = {}
    /\ nextUserId = 1
    /\ Friendships = {}
    /\ nextFriendshipId = 1
    /\ response = Resp("none", NoHeader, 0, 0, "", NoBody)
    /\ everPending = {}
    /\ removedPairs = {}
    /\ pc = [p \in Procs |-> "idle"]
    /\ loc = [p \in Procs |-> [uid |-> NoHeader, to |-> 0, from |-> 0, fid |-> 0]]
    /\ UserInterests = [u \in UserIds |-> <<>>]
    /\ UserSchedule = {}
    /\ nextScheduleId = 1
    /\ cnx = "none"
    /\ firebase = TRUE
    /\ request = [method |-> "", path |-> <<>>]
    /\ claims = [uid \in Uids |-> "None"]

\* mutant: a failed propagation is answered as an error
BestEffort_Surfaced(r) ==
    IF firebase THEN r
    ELSE [r EXCEPT !.code = 500, !.detail = "Internal Server Error",
                   !.body = NoBody]

\* try: set_user_role(...) / sync_role_to_firebase(...) except Exception:
\* print(...): the result r of the handler is returned whatever the
\* Identity Adapter did
BestEffort(r) == r

\* a handler that raises HTTPException: nothing is written
Raise(op, h, arg, code, detail) ==
    /\ response' = Resp(op, h, arg, code, detail, NoBody)
    /\ UNCHANGED db

\* ------------------------------------------------- User Directory handlers
\* POST /users/sync
sync_firebase_user(h, user) ==
    /\ UNCHANGED <<Friendships, nextFriendshipId, conc>>
    /\ IF HeaderMissing(h)
       THEN /\ response' = Resp("sync_firebase_user", h, 0, 401,
                                AuthRequired, NoBody)
            /\ UNCHANGED <<Users, nextUserId>>
       ELSE IF SelectUserByUid(Users, h) # {}
       THEN \E existing_user \in SelectUserByUid(Users, h) :
                /\ Users' = UpdateProfile(Users, h, user)
                /\ response' = Resp("sync_firebase_user", h, 0, 200, "updated",
                                    {[user_id |-> existing_user.user_id]})
                /\ UNCHANGED nextUserId
       ELSE /\ nextUserId <= MaxUsers
            /\ Users' = Users \cup {NewUserRow(nextUserId, h, user)}
            /\ nextUserId' = nextUserId + 1
            /\ response' = BestEffort(Resp("sync_firebase_user", h, 0, 201,
                                "created", {[user_id |-> nextUserId]}))

\* mutant: the test of ownership dropped
NotOwnAccount_Never(current_user, user_id) == FALSE

\* current_user['user_id'] != user_id
NotOwnAccount(current_user, user_id) == current_user.user_id # user_id

\* the columns get_user_by_id and get_user_by_username select (email,
\* profile_picture and created_at are not modelled)
UserResult(u) ==
    [user_id |-> u.user_id, first_name |-> u.first_name,
     last_name |-> u.last_name, username |-> u.username]

\* GET /users/{user_id}: the header is read and never tested
get_user_by_id(h, user_id) ==
    /\ UNCHANGED <<db, conc>>
    /\ IF SelectUserById(Users, user_id) = {}
       THEN response' = Resp("get_user_by_id", h, user_id, 404,
                             "User not found", NoBody)
       ELSE \E row \in SelectUserById(Users, user_id) :
            response' = Resp("get_user_by_id", h, user_id, 200, "ok",
                             {UserResult(row)})

\* mutant: the lookup compares first_name
SelectUserByUsername_FirstName(U, username) ==
    {u \in U : u.first_name = username}

\* SELECT ... FROM Users WHERE username = %s
SelectUserByUsername(U, username) == {u \in U : u.username = username}

\* GET /users/{username}
get_user_by_username(h, username) ==
    /\ UNCHANGED <<db, conc>>
    /\ IF HeaderMissing(h)
       THEN response' = Resp("get_user_by_username", h, username, 401,
                             AuthRequired, NoBody)
       ELSE IF SelectUserByUsername(Users, username) = {}
       THEN response' = Resp("get_user_by_username", h, username, 404,
                             "User not found", NoBody)
       ELSE \E row \in SelectUserByUsername(Users, username) :
            response' = Resp("get_user_by_username", h, username, 200, "ok",
                             {UserResult(row)})

\* GET /users/: every row of Users
get_users(h) ==
    /\ UNCHANGED conc
    /\ IF HeaderMissing(h)
       THEN Raise("get_users", h, 0, 401, AuthRequired)
       ELSE /\ response' = Resp("get_users", h, 0, 200, "ok",
                                {UserResult(row) : row \in Users})
            /\ UNCHANGED db

\* GET /users/me: the row of the caller
get_current_user(h) ==
    /\ UNCHANGED conc
    /\ IF HeaderMissing(h)
       THEN Raise("get_current_user", h, 0, 401, AuthRequired)
       ELSE IF SelectUserByUid(Users, h) = {}
       THEN Raise("get_current_user", h, 0, 404,
                  "User not found in database. Please sync your account first.")
       ELSE \E row \in SelectUserByUid(Users, h) :
            /\ response' = Resp("get_current_user", h, 0, 200, "ok",
                                {UserResult(row)})
            /\ UNCHANGED db

\* POST /users/
create_user(h, user) ==
    /\ UNCHANGED <<Friendships, nextFriendshipId, conc>>
    /\ IF HeaderMissing(h)
       THEN /\ response' = Resp("create_user", h, 0, 401, AuthRequired, NoBody)
            /\ UNCHANGED <<Users, nextUserId>>
       ELSE IF SelectUserByUid(Users, h) # {}
       THEN /\ response' = Resp("create_user", h, 0, 400,
                    "User already exists for this Firebase account", NoBody)
            /\ UNCHANGED <<Users, nextUserId>>
       ELSE /\ nextUserId <= MaxUsers
            /\ Users' = Users \cup {NewUserRow(nextUserId, h, user)}
            /\ nextUserId' = nextUserId + 1
            /\ response' = BestEffort(Resp("create_user", h, 0, 201,
                                "created", {[user_id |-> nextUserId]}))

\* a field of UserUpdate that the request leaves out (None)
Unset == "None"

\* the columns of UserUpdate the model carries
UpdateKeys == {"first_name", "last_name", "username", "role"}

\* for key, value in user.dict().items(): if value is not None
ProvidedFields(user) == {k \in UpdateKeys : user[k] # Unset}

\* mutant: the role column is never written
UpdateFields_NoRole(U, user_id, user) ==
    {IF u.user_id = user_id
     THEN [k \in DOMAIN u |->
            IF k \in ProvidedFields(user) \ {"role"} THEN user[k] ELSE u[k]]
     ELSE u : u \in U}

\* UPDATE Users SET <the provided fields> WHERE user_id = %s
UpdateFields(U, user_id, user) ==
    {IF u.user_id = user_id
     THEN [k \in DOMAIN u |->
            IF k \in ProvidedFields(user) THEN user[k] ELSE u[k]]
     ELSE u : u \in U}

\* if key == 'role' and value != current_role: role_changed = True
RoleChanged(U, user_id, user) ==
    /\ "role" \in ProvidedFields(user)
    /\ \E current_user_data \in SelectUserById(U, user_id) :
            user.role # current_user_data.role

\* PUT /users/{user_id}
update_user(h, user_id, user) ==
    /\ UNCHANGED <<Friendships, nextFriendshipId, nextUserId, conc>>
    /\ IF HeaderMissing(h)
       THEN /\ response' = Resp("update_user", h, user_id, 401,
                                AuthRequired, NoBody)
            /\ UNCHANGED Users
       ELSE IF SelectUserByUid(Users, h) = {}
       THEN /\ response' = Resp("update_user", h, user_id, 403,
                                "You can only update your own profile", NoBody)
            /\ UNCHANGED Users
       ELSE \E current_user \in SelectUserByUid(Users, h) :
            IF NotOwnAccount(current_user, user_id)
            THEN /\ response' = Resp("update_user", h, user_id, 403,
                                "You can only update your own profile", NoBody)
                 /\ UNCHANGED Users
            ELSE IF SelectUserById(Users, user_id) = {}
            THEN /\ response' = Resp("update_user", h, user_id, 404,
                                     "User not found", NoBody)
                 /\ UNCHANGED Users
            ELSE IF ProvidedFields(user) = {}
            THEN /\ response' = Resp("update_user", h, user_id, 400,
                                     "No fields to update", NoBody)
                 /\ UNCHANGED Users
            ELSE /\ Users' = UpdateFields(Users, user_id, user)
                 /\ response' =
                        IF RoleChanged(Users, user_id, user)
                        THEN BestEffort(Resp("update_user", h, user_id, 200,
                                        "updated", {[user_id |-> user_id]}))
                        ELSE Resp("update_user", h, user_id, 200,
                                  "updated", {[user_id |-> user_id]})

\* DELETE /users/{user_id}
delete_user(h, user_id) ==
    /\ UNCHANGED <<Friendships, nextFriendshipId, nextUserId, conc>>
    /\ IF HeaderMissing(h)
       THEN /\ response' = Resp("delete_user", h, user_id, 401,
                                AuthRequired, NoBody)
            /\ UNCHANGED Users
       ELSE IF SelectUserByUid(Users, h) = {}
       THEN /\ response' = Resp("delete_user", h, user_id, 403,
                                "You can only delete your own account", NoBody)
            /\ UNCHANGED Users
       ELSE \E current_user \in SelectUserByUid(Users, h) :
            IF NotOwnAccount(current_user, user_id)
            THEN /\ response' = Resp("delete_user", h, user_id, 403,
                                "You can only delete your own account", NoBody)
                 /\ UNCHANGED Users
            ELSE \* DELETE FROM Users WHERE user_id = %s
                 /\ Users' = {u \in Users : u.user_id # user_id}
                 /\ response' = Resp("delete_user", h, user_id, 200, "deleted",
                                     NoBody)

\* ----------------------------------------------------------- admin router
\* valid_roles = ["user", "admin", "moderator"]
valid_roles == {"user", "admin", "moderator"}

\* mutant: the role is not validated
RoleAccepted_Any(role) == TRUE

\* role in valid_roles
RoleAccepted(role) == role \in valid_roles

\* mutant: moderators pass the test too
IsAdmin_OrModerator(user_role) == user_role \in {"admin", "moderator"}

\* not (not user_role or user_role != "admin"), user_role being the
\* x-user-role header or, without it, the role claim get_user_role returns
\* (None when there is none)
IsAdmin(user_role) == user_role # Unset /\ user_role = "admin"

\* UPDATE Users SET role = %s WHERE user_id = %s
UpdateRole(U, user_id, role) ==
    {IF u.user_id = user_id THEN [u EXCEPT !.role = role] ELSE u : u \in U}

\* the message or the warning of the result, by what set_user_role returned
RoleUpdatedMessage ==
    IF firebase
    THEN "Role updated in both database and Firebase"
    ELSE "Role updated in database, but Firebase custom claim update failed"

\* PUT /admin/users/{user_id}/role
update_user_role(h, user_role, user_id, role) ==
    /\ UNCHANGED <<Friendships, nextFriendshipId, nextUserId, conc>>
    /\ IF HeaderMissing(h)
       THEN /\ response' = Resp("update_user_role", h,
                    [user_id |-> user_id, user_role |-> user_role, role |-> role],
                    401, AuthRequired, NoBody)
            /\ UNCHANGED Users
       ELSE IF ~IsAdmin(user_role)
       THEN /\ response' = Resp("update_user_role", h,
                    [user_id |-> user_id, user_role |-> user_role, role |-> role],
                    403, "Only administrators can update user roles", NoBody)
            /\ UNCHANGED Users
       ELSE IF ~RoleAccepted(role)
       THEN /\ response' = Resp("update_user_role", h,
                    [user_id |-> user_id, user_role |-> user_role, role |-> role],
                    400, "Invalid role", NoBody)
            /\ UNCHANGED Users
       ELSE IF SelectUserById(Users, user_id) = {}
       THEN /\ response' = Resp("update_user_role", h,
                    [user_id |-> user_id, user_role |-> user_role, role |-> role],
                    404, "User not found", NoBody)
            /\ UNCHANGED Users
       ELSE /\ Users' = UpdateRole(Users, user_id, role)
            /\ response' = Resp("update_user_role", h,
                    [user_id |-> user_id, user_role |-> user_role, role |-> role],
                    200, RoleUpdatedMessage,
                    {[user_id |-> user_id, role |-> role]})

\* ------------------------------------------------ Friendship Engine handlers
\* cur.fetchone(): one of the rows found, or None
NoRow == [friendship_id |-> 0, status |-> "none"]
FetchOne(rows) == IF rows = {} THEN {NoRow} ELSE rows

\* POST /users/friends/requests
send_friend_request(h, to_user_id) ==
    /\ UNCHANGED conc
    /\ IF HeaderMissing(h)
       THEN Raise("send_friend_request", h, to_user_id, 401, AuthRequired)
       ELSE IF SelectUserByUid(Users, h) = {}
       THEN Raise("send_friend_request", h, to_user_id, 404,
                  "Current user not found")
       ELSE \E current_user \in SelectUserByUid(Users, h) :
            LET from_user_id == current_user.user_id IN
            IF SelectUserById(Users, to_user_id) = {}
            THEN Raise("send_friend_request", h, to_user_id, 404,
                       "Target user not found")
            ELSE IF from_user_id = to_user_id
            THEN Raise("send_friend_request", h, to_user_id, 400,
                       "Cannot send friend request to yourself")
            ELSE \E existing \in FetchOne(SelectExisting(Friendships,
                                            from_user_id, to_user_id)) :
                 IF existing # NoRow /\ existing.status = "accepted"
                 THEN Raise("send_friend_request", h, to_user_id, 400,
                            "You are already friends with this user")
                 ELSE IF existing # NoRow /\ existing.status = "pending"
                 THEN Raise("send_friend_request", h, to_user_id, 400,
                            "Friend request already pending")
                 ELSE /\ nextFriendshipId <= MaxFriendships
                      /\ Friendships' = Friendships \cup
                            {NewFriendshipRow(nextFriendshipId, from_user_id,
                                              to_user_id)}
                      /\ nextFriendshipId' = nextFriendshipId + 1
                      /\ response' = Resp("send_friend_request", h, to_user_id,
                            201, "created",
                            {FriendshipResult(r) :
                                r \in SelectFriendshipById(Friendships',
                                                           nextFriendshipId)})
                      /\ UNCHANGED <<Users, nextUserId>>

\* PUT /users/friends/requests/{friendship_id}/accept
accept_friend_request(h, friendship_id) ==
    /\ UNCHANGED conc
    /\ IF HeaderMissing(h)
       THEN Raise("accept_friend_request", h, friendship_id, 401, AuthRequired)
       ELSE IF SelectUserByUid(Users, h) = {}
       THEN Raise("accept_friend_request", h, friendship_id, 404,
                  "Current user not found")
       ELSE \E current_user \in SelectUserByUid(Users, h) :
            \E friendship \in FetchOne(SelectFriendshipById(Friendships,
                                                            friendship_id)) :
            IF friendship = NoRow
            THEN Raise("accept_friend_request", h, friendship_id, 404,
                       "Friend request not found")
            ELSE IF ~IsInvolved(friendship, current_user.user_id)
            THEN Raise("accept_friend_request", h, friendship_id, 403,
                       "You can only accept friend requests sent to you")
            ELSE IF friendship.status # "pending"
            THEN Raise("accept_friend_request", h, friendship_id, 400,
                       "Friend request is already " \o friendship.status)
            ELSE /\ Friendships' = UpdateAccepted(Friendships, friendship_id)
                 /\ response' = Resp("accept_friend_request", h, friendship_id,
                        200, "ok",
                        {FriendshipResult(r) :
                            r \in SelectFriendshipById(Friendships',
                                                       friendship_id)})
                 /\ UNCHANGED <<Users, nextUserId, nextFriendshipId>>

\* DELETE /users/friends/requests/{friendship_id}/reject
reject_friend_request(h, friendship_id) ==
    /\ UNCHANGED conc
    /\ IF HeaderMissing(h)
       THEN Raise("reject_friend_request", h, friendship_id, 401, AuthRequired)
       ELSE IF SelectUserByUid(Users, h) = {}
       THEN Raise("reject_friend_request", h, friendship_id, 404,
                  "Current user not found")
       ELSE \E current_user \in SelectUserByUid(Users, h) :
            \E friendship \in FetchOne(SelectFriendshipById(Friendships,
                                                            friendship_id)) :
            IF friendship = NoRow
            THEN Raise("reject_friend_request", h, friendship_id, 404,
                       "Friend request not found")
            ELSE IF ~IsInvolved(friendship, current_user.user_id)
            THEN Raise("reject_friend_request", h, friendship_id, 403,
                    "You can only reject friend requests you are involved in")
            ELSE /\ Friendships' = DeleteFriendship(Friendships, friendship_id)
                 /\ response' = Resp("reject_friend_request", h, friendship_id,
                                     200, "deleted", NoBody)
                 /\ UNCHANGED <<Users, nextUserId, nextFriendshipId>>

\* mutant: remove_friend with a status test, a pending row is not removed
remove_friend_AcceptedOnly(h, friendship_id) ==
    /\ UNCHANGED conc
    /\ IF HeaderMissing(h)
       THEN Raise("remove_friend", h, friendship_id, 401, AuthRequired)
       ELSE IF SelectUserByUid(Users, h) = {}
       THEN Raise("remove_friend", h, friendship_id, 404,
                  "Current user not found")
       ELSE \E current_user \in SelectUserByUid(Users, h) :
            \E friendship \in FetchOne(SelectFriendshipById(Friendships,
                                                            friendship_id)) :
            IF friendship = NoRow
            THEN Raise("remove_friend", h, friendship_id, 404,
                       "Friendship not found")
            ELSE IF ~IsInvolved(friendship, current_user.user_id)
            THEN Raise("remove_friend", h, friendship_id, 403,
                       "You can only remove your own friendships")
            ELSE IF friendship.status # "accepted"
            THEN Raise("remove_friend", h, friendship_id, 400,
                       "Friendship is not accepted")
            ELSE /\ Friendships' = DeleteFriendship(Friendships, friendship_id)
                 /\ response' = Resp("remove_friend", h, friendship_id, 200,
                                     "deleted", NoBody)
                 /\ UNCHANGED <<Users, nextUserId, nextFriendshipId>>

\* DELETE /users/friends/{friendship_id}
remove_friend(h, friendship_id) ==
    /\ UNCHANGED conc
    /\ IF HeaderMissing(h)
       THEN Raise("remove_friend", h, friendship_id, 401, AuthRequired)
       ELSE IF SelectUserByUid(Users, h) = {}
       THEN Raise("remove_friend", h, friendship_id, 404,
                  "Current user not found")
       ELSE \E current_user \in SelectUserByUid(Users, h) :
            \E friendship \in FetchOne(SelectFriendshipById(Friendships,
                                                            friendship_id)) :
            IF friendship = NoRow
            THEN Raise("remove_friend", h, friendship_id, 404,
                       "Friendship not found")
            ELSE IF ~IsInvolved(friendship, current_user.user_id)
            THEN Raise("remove_friend", h, friendship_id, 403,
                       "You can only remove your own friendships")
            ELSE /\ Friendships' = DeleteFriendship(Friendships, friendship_id)
                 /\ response' = Resp("remove_friend", h, friendship_id, 200,
                                     "deleted", NoBody)
                 /\ UNCHANGED <<Users, nextUserId, nextFriendshipId>>

\* ----------------------------------------------------------- list handlers
\* a NULL column, None in the response
Null == "NULL"

\* the user_id column of the Users row a LEFT JOIN ... ON id = u.user_id adds:
\* NULL when no row matches
LeftJoinUserId(U, id) ==
    IF \E u \in U : u.user_id = id THEN id ELSE Null

\* mutant: the requested_by != %s condition forgotten
PendingRequestsQuery_NoSenderTest(F, U, me) ==
    {[friendship_id |-> f.friendship_id,
      user_id_1 |-> f.user_id_1, user_id_2 |-> f.user_id_2,
      requested_by |-> f.requested_by, status |-> f.status,
      sender_user_id |-> f.requested_by,
      sender_id |-> IF f.requested_by = f.user_id_1
                    THEN LeftJoinUserId(U, f.user_id_1)
                    ELSE LeftJoinUserId(U, f.user_id_2)] :
        f \in {g \in F : /\ (g.user_id_1 = me \/ g.user_id_2 = me)
                         /\ g.status = "pending"}}

\* the SELECT of get_pending_requests, as the set of its rows (the order is
\* by created_at, which is not modelled; profile columns are left out)
PendingRequestsQuery(F, U, me) ==
    {[friendship_id |-> f.friendship_id,
      user_id_1 |-> f.user_id_1, user_id_2 |-> f.user_id_2,
      requested_by |-> f.requested_by, status |-> f.status,
      sender_user_id |-> f.requested_by,
      sender_id |-> IF f.requested_by = f.user_id_1
                    THEN LeftJoinUserId(U, f.user_id_1)
                    ELSE LeftJoinUserId(U, f.user_id_2)] :
        f \in {g \in F : /\ (g.user_id_1 = me \/ g.user_id_2 = me)
                         /\ g.status = "pending"
                         /\ g.requested_by # me}}

\* the SELECT of get_sent_requests, as the set of its rows
SentRequestsQuery(F, U, me) ==
    {[friendship_id |-> f.friendship_id,
      user_id_1 |-> f.user_id_1, user_id_2 |-> f.user_id_2,
      requested_by |-> f.requested_by, status |-> f.status,
      recipient_user_id |-> IF f.requested_by = f.user_id_1
                            THEN f.user_id_2 ELSE f.user_id_1,
      recipient_id |-> IF f.requested_by = f.user_id_1
                       THEN LeftJoinUserId(U, f.user_id_2)
                       ELSE LeftJoinUserId(U, f.user_id_1)] :
        f \in {g \in F : /\ (g.user_id_1 = me \/ g.user_id_2 = me)
                         /\ g.status = "pending"
                         /\ g.requested_by = me}}

\* mutant: the friend is always taken from user_id_2
FriendsQuery_SecondColumn(F, U, me) ==
    {[friendship_id |-> f.friendship_id,
      user_id_1 |-> f.user_id_1, user_id_2 |-> f.user_id_2,
      status |-> f.status,
      friend_user_id |-> f.user_id_2,
      friend_id |-> LeftJoinUserId(U, f.user_id_2)] :
        f \in {g \in F : /\ (g.user_id_1 = me \/ g.user_id_2 = me)
                         /\ g.status = "accepted"}}

\* the SELECT of get_friends, as the set of its rows
FriendsQuery(F, U, me) ==
    {[friendship_id |-> f.friendship_id,
      user_id_1 |-> f.user_id_1, user_id_2 |-> f.user_id_2,
      status |-> f.status,
      friend_user_id |-> IF f.user_id_1 = me
                         THEN f.user_id_2 ELSE f.user_id_1,
      friend_id |-> IF f.user_id_1 = me
                    THEN LeftJoinUserId(U, f.user_id_2)
                    ELSE LeftJoinUserId(U, f.user_id_1)] :
        f \in {g \in F : /\ (g.user_id_1 = me \/ g.user_id_2 = me)
                         /\ g.status = "accepted"}}

\* GET /users/friends/requests/pending
get_pending_requests(h) ==
    /\ UNCHANGED conc
    /\ IF HeaderMissing(h)
       THEN Raise("get_pending_requests", h, 0, 401, AuthRequired)
       ELSE IF SelectUserByUid(Users, h) = {}
       THEN Raise("get_pending_requests", h, 0, 404, "Current user not found")
       ELSE \E current_user \in SelectUserByUid(Users, h) :
            /\ response' = Resp("get_pending_requests", h, 0, 200, "ok",
                    PendingRequestsQuery(Friendships, Users,
                                         current_user.user_id))
            /\ UNCHANGED db

\* GET /users/friends/requests/sent
get_sent_requests(h) ==
    /\ UNCHANGED conc
    /\ IF HeaderMissing(h)
       THEN Raise("get_sent_requests", h, 0, 401, AuthRequired)
       ELSE IF SelectUserByUid(Users, h) = {}
       THEN Raise("get_sent_requests", h, 0, 404, "Current user not found")
       ELSE \E current_user \in SelectUserByUid(Users, h) :
            /\ response' = Resp("get_sent_requests", h, 0, 200, "ok",
                    SentRequestsQuery(Friendships, Users,
                                      current_user.user_id))
            /\ UNCHANGED db

\* GET /users/friends
get_friends(h) ==
    /\ UNCHANGED conc
    /\ IF HeaderMissing(h)
       THEN Raise("get_friends", h, 0, 401, AuthRequired)
       ELSE IF SelectUserByUid(Users, h) = {}
       THEN Raise("get_friends", h, 0, 404, "Current user not found")
       ELSE \E current_user \in SelectUserByUid(Users, h) :
            /\ response' = Resp("get_friends", h, 0, 200, "ok",
                    FriendsQuery(Friendships, Users, current_user.user_id))
            /\ UNCHANGED db

\* ------------------------------------------------------------------ search
\* the characters of a name
Chars(name) ==
    CASE name = "al"  -> <<"a", "l">>
      [] name = "ito" -> <<"i", "t", "o">>
      [] name = "ali" -> <<"a", "l", "i">>
      [] name = "bo"  -> <<"b", "o">>
      [] name = "lee" -> <<"l", "e", "e">>
      [] name = "bob" -> <<"b", "o", "b">>
      [] name = "ca"  -> <<"c", "a">>
      [] name = "roe" -> <<"r", "o", "e">>
      [] name = "cal" -> <<"c", "a", "l">>
      [] name = "zed" -> <<"z", "e", "d">>

\* the names a column of Users can hold in this model
Names == {"al", "ito", "ali", "bo", "lee", "bob", "ca", "roe", "cal", "zed"}

\* the values of q the model searches for (min_length=1); "_" and "%" are not
\* escaped by the handler and act as LIKE wildcards
Queries == {<<"l">>, <<"b", "o">>, <<"_", "o">>}

\* s LIKE p: "%" stands for any run of characters, "_" for any one character
RECURSIVE Like(_, _)
Like(s, p) ==
    IF p = <<>> THEN s = <<>>
    ELSE IF Head(p) = "%"
    THEN Like(s, Tail(p)) \/ (s # <<>> /\ Like(Tail(s), p))
    ELSE /\ s # <<>>
         /\ (Head(p) = "_" \/ Head(p) = Head(s))
         /\ Like(Tail(s), Tail(p))

\* search_pattern = f"%{q}%"
SearchPattern(q) == <<"%">> \o q \o <<"%">>

\* name LIKE search_pattern, for each name and each q
Matches ==
    [name \in Names, q \in Queries |-> Like(Chars(name), SearchPattern(q))]

\* mutant: the u.user_id != %s condition forgotten
SearchQuery_WithSelf(U, q, me) ==
    {u \in U : \/ Matches[u.first_name, q]
               \/ Matches[u.last_name, q]
               \/ Matches[u.username, q]}

\* SELECT DISTINCT ... FROM Users u WHERE (first_name LIKE %s OR last_name
\* LIKE %s OR username LIKE %s) AND u.user_id != %s, as the set of its rows
\* (LIMIT 50 is above MaxUsers; the order is not modelled)
SearchQuery(U, q, me) ==
    {u \in U : /\ \/ Matches[u.first_name, q]
                  \/ Matches[u.last_name, q]
                  \/ Matches[u.username, q]
               /\ u.user_id # me}

\* SELECT CASE WHEN user_id_1 = me THEN user_id_2 WHEN user_id_2 = me THEN
\* user_id_1 END as friend_id, status FROM Friendships WHERE (user_id_1 = me
\* OR user_id_2 = me)
FriendshipStatusRows(F, me) ==
    {[friend_id |-> IF f.user_id_1 = me THEN f.user_id_2 ELSE f.user_id_1,
      status |-> f.status] :
        f \in {g \in F : g.user_id_1 = me \/ g.user_id_2 = me}}

\* friendships = {row['friend_id']: row['status'] ...}: the dicts the
\* comprehension can build over ids; with several rows for one friend_id the
\* last row fetched wins, and the SELECT has no ORDER BY
FriendshipDicts(F, me, ids) ==
    {d \in [ids -> {"pending", "accepted", Null}] :
        \A id \in ids :
            LET rows == {r \in FriendshipStatusRows(F, me) : r.friend_id = id}
            IN  IF rows = {} THEN d[id] = Null
                ELSE \E r \in rows : d[id] = r.status}

\* GET /users/search?q=
search_users(h, q) ==
    /\ UNCHANGED conc
    /\ IF HeaderMissing(h)
       THEN Raise("search_users", h, q, 401, AuthRequired)
       ELSE IF SelectUserByUid(Users, h) = {}
       THEN Raise("search_users", h, q, 404, "Current user not found")
       ELSE \E current_user \in SelectUserByUid(Users, h) :
            LET users == SearchQuery(Users, q, current_user.user_id)
            IN  \E friendships \in
                    FriendshipDicts(Friendships, current_user.user_id,
                                    {u.user_id : u \in users}) :
                /\ response' = Resp("search_users", h, q, 200, "ok",
                        {[user_id |-> u.user_id,
                          friendship_status |-> friendships[u.user_id]] :
                            u \in users})
                /\ UNCHANGED db

\* -------------------------------------------------------- Interest Catalog
\* the rows of the catalog table Interests; no handler writes it
CatalogIds == {1, 2}

\* GET /users/interests: every row of the catalog
get_interests(h) ==
    /\ UNCHANGED <<db, conc>>
    /\ IF HeaderMissing(h)
       THEN response' = Resp("get_interests", h, 0, 401, AuthRequired, NoBody)
       ELSE response' = Resp("get_interests", h, 0, 200, "ok",
                             {[interest_id |-> i] : i \in CatalogIds})

\* the interest_ids bodies a caller sends
InterestLists ==
    {<<>>, <<1>>, <<2>>, <<1, 2>>, <<2, 1>>, <<1, 3>>, <<3, 1>>, <<1, 1>>}

\* the positions of ids whose id has no row in Interests
MissingAt(ids) == {i \in 1..Len(ids) : ids[i] \notin CatalogIds}

\* mutant: the INSERT comes before the test of the catalog
InsertLoop_InsertFirst(ids) ==
    IF MissingAt(ids) = {}
    THEN [missing |-> FALSE, inserted |-> ids]
    ELSE LET i == CHOOSE k \in MissingAt(ids) : \A m \in MissingAt(ids) : k <= m
         IN  [missing |-> TRUE, inserted |-> SubSeq(ids, 1, i)]

\* for interest_id in interest_ids: SELECT it from Interests, stop at the
\* first id that is missing, INSERT the others in turn
InsertLoop(ids) ==
    IF MissingAt(ids) = {}
    THEN [missing |-> FALSE, inserted |-> ids]
    ELSE LET i == CHOOSE k \in MissingAt(ids) : \A m \in MissingAt(ids) : k <= m
         IN  [missing |-> TRUE, inserted |-> SubSeq(ids, 1, i - 1)]

\* an id occurs twice in ids
HasDuplicate(ids) == \E i, j \in 1..Len(ids) : i # j /\ ids[i] = ids[j]

\* the rows inserted before the second occurrence of an id
BeforeDuplicate(ids) ==
    LET j == CHOOSE k \in 1..Len(ids) :
                /\ \E i \in 1..(k - 1) : ids[i] = ids[k]
                /\ \A m \in 1..(k - 1) : \A i \in 1..(m - 1) : ids[i] # ids[m]
    IN  SubSeq(ids, 1, j - 1)

\* mutant: the rows of the user are not deleted first
ReplaceRows_Append(prior, inserted) == prior \o inserted

\* DELETE FROM UserInterests WHERE user_id = %s, then the INSERTs
ReplaceRows(prior, inserted) == inserted

\* the connection is closed with no cnx.commit(): a transactional engine
\* discards the statements of the call, a non-transactional one keeps them
ClosedUncommitted(prior, written) == {prior, written}

\* POST /users/{user_id}/interests
add_user_interests(h, user_id, interest_ids) ==
    LET arg == [user_id |-> user_id, interest_ids |-> interest_ids]
        prior == UserInterests[user_id]
        loop == InsertLoop(interest_ids)
    IN
    /\ UNCHANGED <<Users, nextUserId, UserSchedule, nextScheduleId>>
    /\ IF HeaderMissing(h)
       THEN /\ response' = Resp("add_user_interests", h, arg, 401,
                                AuthRequired, NoBody)
            /\ cnx' = "none"
            /\ UNCHANGED UserInterests
       ELSE IF SelectUserByUid(Users, h) = {}
       THEN /\ response' = Resp("add_user_interests", h, arg, 403,
                                "Authentication required", NoBody)
            /\ cnx' = "closed"
            /\ UNCHANGED UserInterests
       ELSE \E current_user \in SelectUserByUid(Users, h) :
            IF NotOwnAccount(current_user, user_id)
            THEN /\ response' = Resp("add_user_interests", h, arg, 403,
                        "You can only update your own interests", NoBody)
                 /\ cnx' = "closed"
                 /\ UNCHANGED UserInterests
            ELSE IF loop.missing
            THEN /\ response' = Resp("add_user_interests", h, arg, 400,
                                     "Interest not found", NoBody)
                 /\ cnx' = "closed"
                 /\ \E rows \in ClosedUncommitted(prior,
                                    ReplaceRows(prior, loop.inserted)) :
                        UserInterests' = [UserInterests EXCEPT ![user_id] = rows]
            ELSE \/ /\ response' = Resp("add_user_interests", h, arg, 201,
                                        "updated", {arg})
                    /\ cnx' = "closed"
                    /\ UserInterests' = [UserInterests EXCEPT
                            ![user_id] = ReplaceRows(prior, loop.inserted)]
                 \* a key on (user_id, interest_id) refuses the second INSERT
                 \* of an id: the IntegrityError is not caught
                 \/ /\ HasDuplicate(interest_ids)
                    /\ response' = Resp("add_user_interests", h, arg, 500,
                                        "IntegrityError", NoBody)
                    /\ cnx' = "open"
                    /\ \E rows \in ClosedUncommitted(prior,
                            ReplaceRows(prior, BeforeDuplicate(interest_ids))) :
                        UserInterests' = [UserInterests EXCEPT ![user_id] = rows]

\* GET /users/{user_id}/interests: the rows of any user, for any caller
get_user_interests(h, user_id) ==
    /\ UNCHANGED <<Users, nextUserId, UserInterests, UserSchedule,
                   nextScheduleId>>
    /\ IF HeaderMissing(h)
       THEN /\ response' = Resp("get_user_interests", h, user_id, 401,
                                AuthRequired, NoBody)
            /\ cnx' = "none"
       ELSE /\ response' = Resp("get_user_interests", h, user_id, 200, "ok",
                    {[interest_id |-> UserInterests[user_id][i]] :
                        i \in 1..Len(UserInterests[user_id])})
            /\ cnx' = "closed"

\* -------------------------------------------------------- Schedule Ledger
\* what convert_to_mysql_datetime raises HTTPException(400) for
InvalidDatetime == "Invalid datetime format"

\* the start_time and end_time strings a caller sends
TimeInputs == {"2025-11-23T23:33:00.000Z", "2025-11-24T08:00:00", "tomorrow"}

\* convert_to_mysql_datetime: Z is replaced by +00:00 and the string goes to
\* fromisoformat; with no zone it goes to strptime, with and then without
\* milliseconds; the result is formatted as %Y-%m-%d %H:%M:%S; a string
\* neither parser takes is a ValueError, answered 400
convert_to_mysql_datetime(iso_string) ==
    CASE iso_string = "2025-11-23T23:33:00.000Z" -> "2025-11-23 23:33:00"
      [] iso_string = "2025-11-24T08:00:00" -> "2025-11-24 08:00:00"
      [] OTHER -> InvalidDatetime

\* the bodies of POST /users/{user_id}/schedules (type and title are stored
\* as sent and are not modelled)
Schedules ==
    {[start_time |-> "2025-11-23T23:33:00.000Z",
      end_time |-> "2025-11-24T08:00:00"],
     [start_time |-> "2025-11-24T08:00:00",
      end_time |-> "2025-11-24T08:00:00"],
     [start_time |-> "tomorrow", end_time |-> "2025-11-24T08:00:00"],
     [start_time |-> "2025-11-23T23:33:00.000Z", end_time |-> "tomorrow"]}

\* SELECT ... FROM UserSchedule WHERE user_id = %s
SelectSchedules(S, user_id) == {r \in S : r.user_id = user_id}

\* mutant: the DELETE matches the schedule id alone
DeleteSchedule_AnyOwner(S, schedule_id, user_id) ==
    {r \in S : r.schedule_id # schedule_id}

\* DELETE FROM UserSchedule WHERE schedule_id = %s AND user_id = %s
DeleteSchedule(S, schedule_id, user_id) ==
    {r \in S : ~(r.schedule_id = schedule_id /\ r.user_id = user_id)}

\* GET /users/{user_id}/schedules
get_user_schedules(h, user_id) ==
    /\ UNCHANGED <<Users, nextUserId, UserInterests, UserSchedule,
                   nextScheduleId>>
    /\ IF HeaderMissing(h)
       THEN /\ response' = Resp("get_user_schedules", h, user_id, 401,
                                AuthRequired, NoBody)
            /\ cnx' = "none"
       ELSE IF SelectUserByUid(Users, h) = {}
       THEN /\ response' = Resp("get_user_schedules", h, user_id, 403,
                                "Authentication required", NoBody)
            /\ cnx' = "closed"
       ELSE \E current_user \in SelectUserByUid(Users, h) :
            IF NotOwnAccount(current_user, user_id)
            THEN /\ response' = Resp("get_user_schedules", h, user_id, 403,
                        "You can only view your own schedules", NoBody)
                 /\ cnx' = "closed"
            ELSE /\ response' = Resp("get_user_schedules", h, user_id, 200,
                        "ok", SelectSchedules(UserSchedule, user_id))
                 /\ cnx' = "closed"

\* POST /users/{user_id}/schedules
create_user_schedule(h, user_id, schedule) ==
    LET start_time == convert_to_mysql_datetime(schedule.start_time)
        end_time == convert_to_mysql_datetime(schedule.end_time)
    IN
    /\ UNCHANGED <<Users, nextUserId, UserInterests>>
    /\ IF HeaderMissing(h)
       THEN /\ response' = Resp("create_user_schedule", h, user_id, 401,
                                AuthRequired, NoBody)
            /\ cnx' = "none"
            /\ UNCHANGED <<UserSchedule, nextScheduleId>>
       ELSE IF SelectUserByUid(Users, h) = {}
       THEN /\ response' = Resp("create_user_schedule", h, user_id, 403,
                                "Authentication required", NoBody)
            /\ cnx' = "closed"
            /\ UNCHANGED <<UserSchedule, nextScheduleId>>
       ELSE \E current_user \in SelectUserByUid(Users, h) :
            IF NotOwnAccount(current_user, user_id)
            THEN /\ response' = Resp("create_user_schedule", h, user_id, 403,
                        "You can only create schedules for yourself", NoBody)
                 /\ cnx' = "closed"
                 /\ UNCHANGED <<UserSchedule, nextScheduleId>>
            \* the conversion raises with the cursor and the connection of
            \* line 987 still open: no close() is on this path
            ELSE IF InvalidDatetime \in {start_time, end_time}
            THEN /\ response' = Resp("create_user_schedule", h, user_id, 400,
                                     InvalidDatetime, NoBody)
                 /\ cnx' = "open"
                 /\ UNCHANGED <<UserSchedule, nextScheduleId>>
            ELSE /\ nextScheduleId <= MaxSchedules
                 /\ UserSchedule' = UserSchedule \cup
                        {[schedule_id |-> nextScheduleId, user_id |-> user_id,
                          start_time |-> start_time, end_time |-> end_time]}
                 /\ nextScheduleId' = nextScheduleId + 1
                 /\ response' = Resp("create_user_schedule", h, user_id, 201,
                        "created", {[schedule_id |-> nextScheduleId]})
                 /\ cnx' = "closed"

\* DELETE /users/{user_id}/schedules/{schedule_id}
delete_user_schedule(h, user_id, schedule_id) ==
    LET arg == [user_id |-> user_id, schedule_id |-> schedule_id]
    IN
    /\ UNCHANGED <<Users, nextUserId, UserInterests, nextScheduleId>>
    /\ IF HeaderMissing(h)
       THEN /\ response' = Resp("delete_user_schedule", h, arg, 401,
                                AuthRequired, NoBody)
            /\ cnx' = "none"
            /\ UNCHANGED UserSchedule
       ELSE IF SelectUserByUid(Users, h) = {}
       THEN /\ response' = Resp("delete_user_schedule", h, arg, 403,
                                "Authentication required", NoBody)
            /\ cnx' = "closed"
            /\ UNCHANGED UserSchedule
       ELSE \E current_user \in SelectUserByUid(Users, h) :
            IF NotOwnAccount(current_user, user_id)
            THEN /\ response' = Resp("delete_user_schedule", h, arg, 403,
                        "You can only delete your own schedules", NoBody)
                 /\ cnx' = "closed"
                 /\ UNCHANGED UserSchedule
            ELSE /\ UserSchedule' =
                        DeleteSchedule(UserSchedule, schedule_id, user_id)
                 /\ response' = Resp("delete_user_schedule", h, arg, 200,
                        "deleted", {[schedule_id |-> schedule_id]})
                 /\ cnx' = "closed"

\* --------------------------------------------------------------- history
\* everPending collects the ids of the rows that are pending after the step
ObservePending ==
    /\ everPending' = everPending \cup
        {f.friendship_id : f \in {g \in Friendships' : g.status = "pending"}}
    /\ UNCHANGED other

\* removedPairs collects the pairs of the rows whose id is gone after the step
ObserveRemoved ==
    removedPairs' = removedPairs \cup
        {{f.user_id_1, f.user_id_2} :
            f \in {g \in Friendships :
                    \A k \in Friendships' : k.friendship_id # g.friendship_id}}

\* the history kept in every specification but SpecHistory
Observe == ObservePending /\ UNCHANGED removedPairs

\* ------------------------------------------------------------------ Spec
\* Friendship Engine, every handler one atomic step; users sign up by sync
SyncStep == \E h \in Headers : sync_firebase_user(h, Profile(h)) /\ Observe
SendStep ==
    \E h \in Headers, to \in UserIds : send_friend_request(h, to) /\ Observe
AcceptStep ==
    \E h \in Headers, id \in FriendshipIds :
        accept_friend_request(h, id) /\ Observe
RejectStep ==
    \E h \in Headers, id \in FriendshipIds :
        reject_friend_request(h, id) /\ Observe
RemoveStep ==
    \E h \in Headers, id \in FriendshipIds : remove_friend(h, id) /\ Observe
DeleteUserStep ==
    \E h \in Headers, id \in UserIds : delete_user(h, id) /\ Observe

Next == SyncStep \/ SendStep \/ AcceptStep \/ RejectStep \/ RemoveStep

Spec == Init /\ [][Next]_vars

\* the same steps, with the removed pairs recorded as well
NextHistory ==
    \/ \E h \in Headers :
            sync_firebase_user(h, Profile(h)) /\ ObservePending /\ ObserveRemoved
    \/ \E h \in Headers, to \in UserIds :
            send_friend_request(h, to) /\ ObservePending /\ ObserveRemoved
    \/ \E h \in Headers, id \in FriendshipIds :
            accept_friend_request(h, id) /\ ObservePending /\ ObserveRemoved
    \/ \E h \in Headers, id \in FriendshipIds :
            reject_friend_request(h, id) /\ ObservePending /\ ObserveRemoved
    \/ \E h \in Headers, id \in FriendshipIds :
            remove_friend(h, id) /\ ObservePending /\ ObserveRemoved

SpecHistory == Init /\ [][NextHistory]_vars

\* the same with accounts being deleted (DELETE FROM Users only: the handler
\* issues no statement on Friendships)
NextAccounts == Next \/ DeleteUserStep

SpecAccounts == Init /\ [][NextAccounts]_vars

PendingStep == \E h \in Headers : get_pending_requests(h) /\ Observe

SentStep == \E h \in Headers : get_sent_requests(h) /\ Observe

FriendsStep == \E h \in Headers : get_friends(h) /\ Observe

SearchStep == \E h \in Headers, q \in Queries : search_users(h, q) /\ Observe

\* the engine with its list handlers
NextLists == Next \/ PendingStep \/ SentStep \/ FriendsStep

SpecLists == Init /\ [][NextLists]_vars

\* the engine with search
NextSearch == Next \/ SearchStep

SpecSearch == Init /\ [][NextSearch]_vars

\* the engine with every handler that reads the Friendships table, the
\* reads made by one caller or without a header
ReadHeaders == {"alice", NoHeader}

ReadsListStep ==
    \E h \in ReadHeaders :
        (get_pending_requests(h) \/ get_sent_requests(h) \/ get_friends(h))
        /\ Observe

ReadsSearchStep ==
    \E h \in ReadHeaders, q \in Queries : search_users(h, q) /\ Observe

NextReads == Next \/ ReadsListStep \/ ReadsSearchStep

SpecReads == Init /\ [][NextReads]_vars

\* --------------------------------------------------------- SpecDirectory
\* the User Directory and the admin router, called by two identities
DirectoryHeaders == {"alice", "bob", NoHeader}

\* the bodies /users/sync and POST /users are called with: the profile of the
\* identity, or the same with another first name
UserSyncs(h) == {Profile(h), [Profile(h) EXCEPT !.first_name = "zed"]}

\* the bodies PUT /users/{user_id} is called with: nothing, a first name, a
\* role of the enumeration, a role outside it
UserUpdates ==
    {[first_name |-> Unset, last_name |-> Unset, username |-> Unset,
      role |-> Unset],
     [first_name |-> "zed", last_name |-> Unset, username |-> Unset,
      role |-> Unset],
     [first_name |-> Unset, last_name |-> Unset, username |-> Unset,
      role |-> "admin"],
     [first_name |-> "zed", last_name |-> Unset, username |-> Unset,
      role |-> "superuser"]}

\* the usernames looked up: one per identity and one nobody has
Usernames == {"ali", "bob", "zed"}

\* the caller's role as the gateway or the claims give it
CallerRoles == {Unset, "user", "admin"}

\* the values of the role parameter of the admin router
RoleInputs == {"user", "moderator", "superuser"}

DirSyncStep ==
    \E h \in DirectoryHeaders : \E user \in UserSyncs(h) :
        sync_firebase_user(h, user) /\ Observe
DirCreateStep ==
    \E h \in DirectoryHeaders : \E user \in UserSyncs(h) :
        create_user(h, user) /\ Observe
DirUpdateStep ==
    \E h \in DirectoryHeaders, id \in UserIds, user \in UserUpdates :
        update_user(h, id, user) /\ Observe
DirDeleteStep ==
    \E h \in DirectoryHeaders, id \in UserIds : delete_user(h, id) /\ Observe
DirGetByIdStep ==
    \E h \in DirectoryHeaders, id \in UserIds : get_user_by_id(h, id) /\ Observe
DirGetByUsernameStep ==
    \E h \in DirectoryHeaders, username \in Usernames :
        get_user_by_username(h, username) /\ Observe
DirRoleStep ==
    \E h \in DirectoryHeaders, user_role \in CallerRoles, id \in UserIds,
       role \in RoleInputs :
        update_user_role(h, user_role, id, role) /\ Observe

NextDirectory ==
    \/ DirSyncStep
    \/ DirCreateStep
    \/ DirUpdateStep
    \/ DirDeleteStep
    \/ DirGetByIdStep
    \/ DirGetByUsernameStep
    \/ DirRoleStep

SpecDirectory == Init /\ [][NextDirectory]_vars

\* -------------------------------------------------------- SpecInterests
\* sign-up and the Interest Catalog handlers, every handler one atomic step
InterestHeaders == {"alice", "bob", NoHeader}

InterestsSyncStep ==
    \E h \in InterestHeaders : sync_firebase_user(h, Profile(h)) /\ Observe
InterestsAddStep ==
    \E h \in InterestHeaders, id \in UserIds, ids \in InterestLists :
        add_user_interests(h, id, ids) /\ UNCHANGED engine
InterestsGetStep ==
    \E h \in InterestHeaders, id \in UserIds :
        get_user_interests(h, id) /\ UNCHANGED engine

NextInterests == InterestsSyncStep \/ InterestsAddStep \/ InterestsGetStep

SpecInterests == Init /\ [][NextInterests]_vars

\* -------------------------------------------------------- SpecSchedules
\* sign-up and the Schedule Ledger handlers, every handler one atomic step
ScheduleHeaders == {"alice", "bob", NoHeader}

SchedSyncStep ==
    \E h \in ScheduleHeaders : sync_firebase_user(h, Profile(h)) /\ Observe
SchedGetStep ==
    \E h \in ScheduleHeaders, id \in UserIds :
        get_user_schedules(h, id) /\ UNCHANGED engine
SchedCreateStep ==
    \E h \in ScheduleHeaders, id \in UserIds, schedule \in Schedules :
        create_user_schedule(h, id, schedule) /\ UNCHANGED engine
SchedDeleteStep ==
    \E h \in ScheduleHeaders, id \in UserIds, schedule_id \in ScheduleIds :
        delete_user_schedule(h, id, schedule_id) /\ UNCHANGED engine
NextSchedules ==
    \/ SchedSyncStep
    \/ SchedGetStep
    \/ SchedCreateStep
    \/ SchedDeleteStep

SpecSchedules == Init /\ [][NextSchedules]_vars

\* ------------------------------------------------------ SpecConnections
\* the store connection of each call: sign-up, the friend request, the
\* interest replacement and the creation of a schedule entry

\* the interest_ids bodies of SpecConnections: one that succeeds, one that fails
ConnInterestLists == {<<1>>, <<3>>}

\* sync_firebase_user and send_friend_request: get_firebase_uid_from_header
\* raises before get_connection; every later return and raise follows
\* cur.close() and cnx.close()
ReleasedConnection(code) == IF code = 401 THEN "none" ELSE "closed"

ConnSyncStep ==
    \E h \in ScheduleHeaders :
        /\ sync_firebase_user(h, Profile(h))
        /\ everPending' = everPending
        /\ cnx' = ReleasedConnection(response'.code)
        /\ UNCHANGED <<removedPairs, UserInterests, UserSchedule,
                       nextScheduleId, firebase, claims, request>>
ConnCreateStep ==
    \E h \in ScheduleHeaders, id \in UserIds, schedule \in Schedules :
        create_user_schedule(h, id, schedule) /\ UNCHANGED engine
ConnSendStep ==
    \E h \in ScheduleHeaders, to \in UserIds :
        /\ send_friend_request(h, to)
        /\ everPending' = everPending \cup
            {f.friendship_id :
                f \in {g \in Friendships' : g.status = "pending"}}
        /\ cnx' = ReleasedConnection(response'.code)
        /\ UNCHANGED <<removedPairs, UserInterests, UserSchedule,
                       nextScheduleId, firebase, claims, request>>
ConnInterestsStep ==
    \E h \in ScheduleHeaders, id \in UserIds, ids \in ConnInterestLists :
        add_user_interests(h, id, ids) /\ UNCHANGED engine

NextConnections ==
    \/ ConnSyncStep
    \/ ConnCreateStep
    \/ ConnSendStep
    \/ ConnInterestsStep

SpecConnections == Init /\ [][NextConnections]_vars

\* ----------------------------------------------------------- SpecClaims
\* the Identity Adapter: the four handlers that propagate a role to the
\* claims of an identity, and the adapter going down and coming back
ClaimHeaders == {"alice", "bob", NoHeader}

\* the role bodies of update_user in SpecClaims
ClaimUpdates ==
    {[first_name |-> "zed", last_name |-> Unset, username |-> Unset,
      role |-> Unset],
     [first_name |-> Unset, last_name |-> Unset, username |-> Unset,
      role |-> "admin"],
     [first_name |-> Unset, last_name |-> Unset, username |-> Unset,
      role |-> "user"]}

\* set_user_role: auth.set_custom_user_claims(firebase_uid, {..., "role":
\* role}) and True, or False when the SDK is not initialized, the identity
\* is unknown to it or the call fails
set_user_role(C, firebase_uid, role) ==
    IF firebase THEN [C EXCEPT ![firebase_uid] = role] ELSE C

\* what each step leaves alone besides the tables and the claims
ClaimsFrame ==
    UNCHANGED <<everPending, removedPairs, UserInterests, UserSchedule,
                nextScheduleId, cnx, firebase, request>>

ClaimsSyncStep ==
    \E h \in ClaimHeaders :
        /\ sync_firebase_user(h, Profile(h))
        /\ claims' = IF response'.code = 201
                     THEN set_user_role(claims, h, "user")
                     ELSE claims
        /\ ClaimsFrame
ClaimsCreateStep ==
    \E h \in ClaimHeaders :
        /\ create_user(h, Profile(h))
        /\ claims' = IF response'.code = 201
                     THEN set_user_role(claims, h, "user")
                     ELSE claims
        /\ ClaimsFrame
ClaimsUpdateStep ==
    \E h \in ClaimHeaders, id \in UserIds, user \in ClaimUpdates :
        /\ update_user(h, id, user)
        /\ claims' = IF /\ response'.code = 200
                        /\ RoleChanged(Users, id, user)
                     THEN set_user_role(claims, h, user.role)
                     ELSE claims
        /\ ClaimsFrame
ClaimsRoleStep ==
    \E h \in ClaimHeaders, user_role \in {"user", "admin"}, id \in UserIds,
       role \in {"user", "moderator"} :
        /\ update_user_role(h, user_role, id, role)
        /\ claims' = IF response'.code = 200
                     THEN LET user == CHOOSE u \in SelectUserById(Users, id) :
                                        TRUE
                          IN  set_user_role(claims, user.firebase_uid, role)
                     ELSE claims
        /\ ClaimsFrame
\* the Identity Adapter becomes unavailable, or available again
ClaimsAdapterStep ==
    /\ firebase' = ~firebase
    /\ UNCHANGED <<db, conc, response, everPending, removedPairs,
                   UserInterests, UserSchedule, nextScheduleId, cnx, claims,
                   request>>

NextClaims ==
    \/ ClaimsSyncStep
    \/ ClaimsCreateStep
    \/ ClaimsUpdateStep
    \/ ClaimsRoleStep
    \/ ClaimsAdapterStep

SpecClaims == Init /\ [][NextClaims]_vars

\* ------------------------------------------------------------- SpecAuth
\* two users fill the tables; then every handler of the two routers is
\* called with no identity header, and get_user_by_id with none, with the
\* internal identity and with a user's
AuthHeaders == {"alice", "bob"}

\* the identities get_user_by_id is called with
InternalHeaders == {NoHeader, "system", "alice"}

\* the bodies of update_user and of create_user_schedule in SpecAuth
AuthUpdate ==
    [first_name |-> "zed", last_name |-> Unset, username |-> Unset,
     role |-> Unset]
AuthSchedule ==
    [start_time |-> "2025-11-24T08:00:00", end_time |-> "2025-11-24T08:00:00"]

AuthSyncStep ==
    \E h \in AuthHeaders : sync_firebase_user(h, Profile(h)) /\ Observe
AuthSendStep ==
    \E h \in AuthHeaders, to \in UserIds : send_friend_request(h, to) /\ Observe
AuthFillStep ==
    \E h \in AuthHeaders, id \in UserIds :
        /\ \/ add_user_interests(h, id, <<1>>)
           \/ create_user_schedule(h, id, AuthSchedule)
        /\ UNCHANGED engine
AuthGetByIdStep ==
    \E h \in InternalHeaders, id \in UserIds : get_user_by_id(h, id) /\ Observe
\* the User Directory and the admin router, no identity
AuthDirectoryStep ==
    /\ \/ sync_firebase_user(NoHeader, Profile("alice"))
       \/ create_user(NoHeader, Profile("alice"))
       \/ get_users(NoHeader)
       \/ get_current_user(NoHeader)
       \/ get_user_by_username(NoHeader, "ali")
       \/ \E id \in UserIds : update_user(NoHeader, id, AuthUpdate)
       \/ \E id \in UserIds : delete_user(NoHeader, id)
       \/ \E id \in UserIds : update_user_role(NoHeader, "admin", id, "moderator")
    /\ Observe
\* the Friendship Engine and the reads, no identity
AuthEngineStep ==
    /\ \/ \E to \in UserIds : send_friend_request(NoHeader, to)
       \/ \E id \in FriendshipIds : accept_friend_request(NoHeader, id)
       \/ \E id \in FriendshipIds : reject_friend_request(NoHeader, id)
       \/ \E id \in FriendshipIds : remove_friend(NoHeader, id)
       \/ get_pending_requests(NoHeader)
       \/ get_sent_requests(NoHeader)
       \/ get_friends(NoHeader)
       \/ search_users(NoHeader, <<"l">>)
       \/ get_interests(NoHeader)
    /\ Observe
\* the Interest Catalog and the Schedule Ledger, no identity
AuthOtherStep ==
    \E id \in UserIds :
        /\ \/ add_user_interests(NoHeader, id, <<1>>)
           \/ get_user_interests(NoHeader, id)
           \/ get_user_schedules(NoHeader, id)
           \/ create_user_schedule(NoHeader, id, AuthSchedule)
           \/ \E schedule_id \in ScheduleIds :
                delete_user_schedule(NoHeader, id, schedule_id)
        /\ UNCHANGED engine

NextAuth ==
    \/ AuthSyncStep
    \/ AuthSendStep
    \/ AuthFillStep
    \/ AuthGetByIdStep
    \/ AuthDirectoryStep
    \/ AuthEngineStep
    \/ AuthOtherStep

SpecAuth == Init /\ [][NextAuth]_vars

\* ----------------------------------------------------------- SpecRoutes
\* the path operations of router (prefix /users) in the order of their
\* decorators; a path is the sequence of its segments after /users/
Routes ==
    << [method |-> "GET", path |-> <<>>, endpoint |-> "get_users"],
       [method |-> "GET", path |-> <<"me">>, endpoint |-> "get_current_user"],
       [method |-> "GET", path |-> <<"interests">>,
        endpoint |-> "get_interests"],
       [method |-> "GET", path |-> <<"search">>, endpoint |-> "search_users"],
       [method |-> "POST", path |-> <<"friends", "requests">>,
        endpoint |-> "send_friend_request"],
       [method |-> "GET", path |-> <<"friends", "requests", "pending">>,
        endpoint |-> "get_pending_requests"],
       [method |-> "GET", path |-> <<"friends", "requests", "sent">>,
        endpoint |-> "get_sent_requests"],
       [method |-> "GET", path |-> <<"friends">>, endpoint |-> "get_friends"],
       [method |-> "PUT",
        path |-> <<"friends", "requests", "{friendship_id}", "accept">>,
        endpoint |-> "accept_friend_request"],
       [method |-> "DELETE",
        path |-> <<"friends", "requests", "{friendship_id}", "reject">>,
        endpoint |-> "reject_friend_request"],
       [method |-> "DELETE", path |-> <<"friends", "{friendship_id}">>,
        endpoint |-> "remove_friend"],
       [method |-> "GET", path |-> <<"{user_id}">>,
        endpoint |-> "get_user_by_id"],
       [method |-> "GET", path |-> <<"{username}">>,
        endpoint |-> "get_user_by_username"],
       [method |-> "POST", path |-> <<"sync">>,
        endpoint |-> "sync_firebase_user"],
       [method |-> "POST", path |-> <<>>, endpoint |-> "create_user"],
       [method |-> "PUT", path |-> <<"{user_id}">>, endpoint |-> "update_user"],
       [method |-> "DELETE", path |-> <<"{user_id}">>,
        endpoint |-> "delete_user"],
       [method |-> "GET", path |-> <<"{user_id}", "schedules">>,
        endpoint |-> "get_user_schedules"],
       [method |-> "POST", path |-> <<"{user_id}", "schedules">>,
        endpoint |-> "create_user_schedule"],
       [method |-> "DELETE",
        path |-> <<"{user_id}", "schedules", "{schedule_id}">>,
        endpoint |-> "delete_user_schedule"],
       [method |-> "GET", path |-> <<"{user_id}", "interests">>,
        endpoint |-> "get_user_interests"],
       [method |-> "POST", path |-> <<"{user_id}", "interests">>,
        endpoint |-> "add_user_interests"] >>

\* a path parameter: {name} compiles to one non-empty segment, [^/]+,
\* whatever the type the endpoint declares for it
IsParam(segment) ==
    segment \in {"{user_id}", "{username}", "{friendship_id}", "{schedule_id}"}

\* the compiled path of a route matches the path of the request
PathMatches(pattern, path) ==
    /\ Len(pattern) = Len(path)
    /\ \A i \in 1..Len(pattern) : IsParam(pattern[i]) \/ pattern[i] = path[i]

\* the routes that match the request in full: path and method
FullMatches(method, path) ==
    {i \in 1..Len(Routes) :
        Routes[i].method = method /\ PathMatches(Routes[i].path, path)}

\* the routes whose path matches; with no full match the first of them
\* answers 405
PartialMatches(path) ==
    {i \in 1..Len(Routes) : PathMatches(Routes[i].path, path)}

NoRoute == "none"

\* mutant: the route registered last wins
Dispatch_LastMatch(method, path) ==
    IF FullMatches(method, path) = {} THEN NoRoute
    ELSE Routes[CHOOSE i \in FullMatches(method, path) :
                    \A j \in FullMatches(method, path) : j <= i].endpoint

\* the router tries its routes in order and hands the request to the first
\* that matches in full
Dispatch(method, path) ==
    IF FullMatches(method, path) = {} THEN NoRoute
    ELSE Routes[CHOOSE i \in FullMatches(method, path) :
                    \A j \in FullMatches(method, path) : i <= j].endpoint

\* the segments the model sends where a user id or a username goes
Digits == {"1", "2", "3"}
\* user_id: int, validated after the route is chosen
ParseInt(segment) ==
    CASE segment = "1" -> 1 [] segment = "2" -> 2 [] segment = "3" -> 3
      [] OTHER -> 0

\* the requests of SpecRoutes
Requests ==
    {[method |-> "GET", path |-> <<>>],
     [method |-> "GET", path |-> <<"me">>],
     [method |-> "GET", path |-> <<"interests">>],
     [method |-> "GET", path |-> <<"search">>],
     [method |-> "GET", path |-> <<"friends">>],
     [method |-> "GET", path |-> <<"friends", "requests", "pending">>],
     [method |-> "GET", path |-> <<"friends", "requests", "sent">>],
     [method |-> "POST", path |-> <<"friends", "requests">>],
     [method |-> "POST", path |-> <<"sync">>],
     [method |-> "GET", path |-> <<"1">>],
     [method |-> "GET", path |-> <<"2">>],
     [method |-> "GET", path |-> <<"ali">>],
     [method |-> "GET", path |-> <<"bob">>],
     [method |-> "PATCH", path |-> <<"me">>],
     [method |-> "GET", path |-> <<"me", "you">>]}

RouteHeaders == {"alice", "bob", NoHeader}

\* the endpoint runs with the parameters taken from the path; a user_id that
\* is not an integer is refused by the validation of the parameters (422)
\* before the endpoint is called
Endpoint(endpoint, h, path) ==
    CASE endpoint = "get_users" -> get_users(h)
      [] endpoint = "get_current_user" -> get_current_user(h)
      [] endpoint = "get_interests" -> get_interests(h)
      [] endpoint = "search_users" -> search_users(h, <<"l">>)
      [] endpoint = "send_friend_request" ->
            \E to \in UserIds : send_friend_request(h, to)
      [] endpoint = "get_pending_requests" -> get_pending_requests(h)
      [] endpoint = "get_sent_requests" -> get_sent_requests(h)
      [] endpoint = "get_friends" -> get_friends(h)
      [] endpoint = "sync_firebase_user" -> sync_firebase_user(h, Profile(h))
      [] endpoint = "get_user_by_id" ->
            IF path[1] \in Digits
            THEN get_user_by_id(h, ParseInt(path[1]))
            ELSE /\ Raise("get_user_by_id", h, 0, 422,
                          "value is not a valid integer")
                 /\ UNCHANGED conc
      [] endpoint = "get_user_by_username" -> get_user_by_username(h, path[1])
      [] OTHER ->
            /\ IF PartialMatches(path) # {}
               THEN Raise(NoRoute, h, 0, 405, "Method Not Allowed")
               ELSE Raise(NoRoute, h, 0, 404, "Not Found")
            /\ UNCHANGED conc

RouteStep ==
    \E h \in RouteHeaders, r \in Requests :
        /\ Endpoint(Dispatch(r.method, r.path), h, r.path)
        /\ request' = r
        /\ everPending' = everPending \cup
            {f.friendship_id :
                f \in {g \in Friendships' : g.status = "pending"}}
        /\ UNCHANGED <<removedPairs, UserInterests, UserSchedule,
                       nextScheduleId, cnx, firebase, claims>>

NextRoutes == RouteStep

SpecRoutes == Init /\ [][NextRoutes]_vars

\* -------------------------------------------------------------- SpecConc
\* send_friend_request in request p, one SQL statement per step. A request
\* starts only while an id is left for its INSERT.
InFlight == {q \in Procs : pc[q] # "idle"}
NoLocals == [uid |-> NoHeader, to |-> 0, from |-> 0, fid |-> 0]

Finish(p) ==
    /\ pc' = [pc EXCEPT ![p] = "idle"]
    /\ loc' = [loc EXCEPT ![p] = NoLocals]

\* lines 194-206: header, SELECT the current user
sfr_current_user(p, h, to_user_id) ==
    /\ pc[p] = "idle"
    /\ nextFriendshipId + Cardinality(InFlight) <= MaxFriendships
    /\ IF HeaderMissing(h)
       THEN /\ Raise("send_friend_request", h, to_user_id, 401,
                     AuthRequired)
            /\ UNCHANGED conc
       ELSE IF SelectUserByUid(Users, h) = {}
       THEN /\ Raise("send_friend_request", h, to_user_id, 404,
                     "Current user not found")
            /\ UNCHANGED conc
       ELSE \E current_user \in SelectUserByUid(Users, h) :
            /\ pc' = [pc EXCEPT ![p] = "target"]
            /\ loc' = [loc EXCEPT ![p] = [uid |-> h, to |-> to_user_id,
                                          from |-> current_user.user_id,
                                          fid |-> 0]]
            /\ UNCHANGED <<db, response>>

\* lines 208-220: SELECT the target user, then the self test
sfr_target(p) ==
    /\ pc[p] = "target"
    /\ IF SelectUserById(Users, loc[p].to) = {}
       THEN /\ Raise("send_friend_request", loc[p].uid, loc[p].to, 404,
                     "Target user not found")
            /\ Finish(p)
       ELSE IF loc[p].from = loc[p].to
       THEN /\ Raise("send_friend_request", loc[p].uid, loc[p].to, 400,
                     "Cannot send friend request to yourself")
            /\ Finish(p)
       ELSE /\ pc' = [pc EXCEPT ![p] = "existing"]
            /\ UNCHANGED <<db, response, loc>>

\* lines 222-240: SELECT the existing row of the pair
sfr_existing(p) ==
    /\ pc[p] = "existing"
    /\ \E existing \in FetchOne(SelectExisting(Friendships, loc[p].from,
                                               loc[p].to)) :
        IF existing # NoRow /\ existing.status = "accepted"
        THEN /\ Raise("send_friend_request", loc[p].uid, loc[p].to, 400,
                      "You are already friends with this user")
             /\ Finish(p)
        ELSE IF existing # NoRow /\ existing.status = "pending"
        THEN /\ Raise("send_friend_request", loc[p].uid, loc[p].to, 400,
                      "Friend request already pending")
             /\ Finish(p)
        ELSE /\ pc' = [pc EXCEPT ![p] = "insert"]
             /\ UNCHANGED <<db, response, loc>>

\* lines 242-253: INSERT, commit, lastrowid
sfr_insert(p) ==
    /\ pc[p] = "insert"
    /\ Friendships' = Friendships \cup
            {NewFriendshipRow(nextFriendshipId, loc[p].from, loc[p].to)}
    /\ nextFriendshipId' = nextFriendshipId + 1
    /\ pc' = [pc EXCEPT ![p] = "result"]
    /\ loc' = [loc EXCEPT ![p].fid = nextFriendshipId]
    /\ UNCHANGED <<Users, nextUserId, response>>

\* lines 255-265: SELECT the row by its id and return it
sfr_result(p) ==
    /\ pc[p] = "result"
    /\ response' = Resp("send_friend_request", loc[p].uid, loc[p].to, 201,
            "created",
            {FriendshipResult(r) :
                r \in SelectFriendshipById(Friendships, loc[p].fid)})
    /\ Finish(p)
    /\ UNCHANGED db

ConcSyncStep == \E h \in Headers : sync_firebase_user(h, Profile(h)) /\ Observe
ConcStartStep ==
    \E p \in Procs, h \in Headers, to \in UserIds :
        sfr_current_user(p, h, to) /\ Observe
ConcTargetStep == \E p \in Procs : sfr_target(p) /\ Observe
ConcExistingStep == \E p \in Procs : sfr_existing(p) /\ Observe
ConcInsertStep == \E p \in Procs : sfr_insert(p) /\ Observe
ConcResultStep == \E p \in Procs : sfr_result(p) /\ Observe

NextConc ==
    \/ ConcSyncStep
    \/ ConcStartStep
    \/ ConcTargetStep
    \/ ConcExistingStep
    \/ ConcInsertStep
    \/ ConcResultStep

SpecConc == Init /\ [][NextConc]_vars

\* ------------------------------------------------------------ SpecAccept
\* accept_friend_request in request p, one SQL statement per step, beside
\* sync_firebase_user and send_friend_request run as single steps. Two
\* identities call: the two participants of the one row they can create.
AcceptHeaders == {"alice", "bob", NoHeader}

\* lines 481-493: header, SELECT the current user
afr_current_user(p, h, friendship_id) ==
    /\ pc[p] = "idle"
    /\ IF HeaderMissing(h)
       THEN /\ Raise("accept_friend_request", h, friendship_id, 401,
                     AuthRequired)
            /\ UNCHANGED conc
       ELSE IF SelectUserByUid(Users, h) = {}
       THEN /\ Raise("accept_friend_request", h, friendship_id, 404,
                     "Current user not found")
            /\ UNCHANGED conc
       ELSE \E current_user \in SelectUserByUid(Users, h) :
            /\ pc' = [pc EXCEPT ![p] = "friendship"]
            /\ loc' = [loc EXCEPT ![p] = [uid |-> h, to |-> 0,
                                          from |-> current_user.user_id,
                                          fid |-> friendship_id]]
            /\ UNCHANGED <<db, response>>

\* lines 495-518: SELECT the row, then the tests of existence, participant
\* and status
afr_friendship(p) ==
    /\ pc[p] = "friendship"
    /\ \E friendship \in FetchOne(SelectFriendshipById(Friendships,
                                                       loc[p].fid)) :
        IF friendship = NoRow
        THEN /\ Raise("accept_friend_request", loc[p].uid, loc[p].fid, 404,
                      "Friend request not found")
             /\ Finish(p)
        ELSE IF ~IsInvolved(friendship, loc[p].from)
        THEN /\ Raise("accept_friend_request", loc[p].uid, loc[p].fid, 403,
                      "You can only accept friend requests sent to you")
             /\ Finish(p)
        ELSE IF friendship.status # "pending"
        THEN /\ Raise("accept_friend_request", loc[p].uid, loc[p].fid, 400,
                      "Friend request is already " \o friendship.status)
             /\ Finish(p)
        ELSE /\ pc' = [pc EXCEPT ![p] = "update"]
             /\ UNCHANGED <<db, response, loc>>

\* mutant: UPDATE ... WHERE friendship_id = %s AND status = 'pending', and
\* 400 when no row was changed
afr_update_Guarded(p) ==
    /\ pc[p] = "update"
    /\ IF \E f \in SelectFriendshipById(Friendships, loc[p].fid) :
            f.status = "pending"
       THEN /\ Friendships' = UpdateAccepted(Friendships, loc[p].fid)
            /\ pc' = [pc EXCEPT ![p] = "result"]
            /\ UNCHANGED <<Users, nextUserId, nextFriendshipId, response, loc>>
       ELSE /\ Raise("accept_friend_request", loc[p].uid, loc[p].fid, 400,
                     "Friend request is already accepted")
            /\ Finish(p)

\* lines 520-527: UPDATE by friendship_id alone, commit
afr_update(p) ==
    /\ pc[p] = "update"
    /\ Friendships' = UpdateAccepted(Friendships, loc[p].fid)
    /\ pc' = [pc EXCEPT ![p] = "result"]
    /\ UNCHANGED <<Users, nextUserId, nextFriendshipId, response, loc>>

\* lines 529-539: SELECT the row by its id and return it
afr_result(p) ==
    /\ pc[p] = "result"
    /\ response' = Resp("accept_friend_request", loc[p].uid, loc[p].fid, 200,
            "ok",
            {FriendshipResult(r) :
                r \in SelectFriendshipById(Friendships, loc[p].fid)})
    /\ Finish(p)
    /\ UNCHANGED db

AcceptSyncStep == \E h \in AcceptHeaders : sync_firebase_user(h, Profile(h)) /\ Observe
AcceptSendStep ==
    \E h \in AcceptHeaders, to \in UserIds :
        send_friend_request(h, to) /\ Observe
AcceptStartStep ==
    \E p \in Procs, h \in AcceptHeaders, id \in FriendshipIds :
        afr_current_user(p, h, id) /\ Observe
AcceptFriendshipStep == \E p \in Procs : afr_friendship(p) /\ Observe
AcceptUpdateStep == \E p \in Procs : afr_update(p) /\ Observe
AcceptResultStep == \E p \in Procs : afr_result(p) /\ Observe

NextAccept ==
    \/ AcceptSyncStep
    \/ AcceptSendStep
    \/ AcceptStartStep
    \/ AcceptFriendshipStep
    \/ AcceptUpdateStep
    \/ AcceptResultStep

SpecAccept == Init /\ [][NextAccept]_vars

\* -------------------------------------------------------------- SpecRace
\* SpecAccept with reject_friend_request and remove_friend: each runs as one
\* step, between any two statements of an accept in flight
RaceRejectStep ==
    \E h \in AcceptHeaders, id \in FriendshipIds :
        reject_friend_request(h, id) /\ Observe
RaceRemoveStep ==
    \E h \in AcceptHeaders, id \in FriendshipIds :
        remove_friend(h, id) /\ Observe

NextRace ==
    \/ AcceptSyncStep
    \/ AcceptSendStep
    \/ AcceptStartStep
    \/ AcceptFriendshipStep
    \/ AcceptUpdateStep
    \/ AcceptResultStep
    \/ RaceRejectStep
    \/ RaceRemoveStep

SpecRace == Init /\ [][NextRace]_vars

\* ================================================================ claims
\* what the formulas read off the tables, stated apart from the statements
\* the handlers run
PairRows(F, a, b) == {f \in F : {f.user_id_1, f.user_id_2} = {a, b}}
Participants(f) == {f.user_id_1, f.user_id_2}
RowIds(F) == {f.friendship_id : f \in F}
\* the user ids the header of the last call resolves to (before the step)
CallerIds == {u.user_id : u \in {v \in Users : v.firebase_uid = response'.uid}}
IdOps == {"accept_friend_request", "reject_friend_request", "remove_friend"}

\* C1: with every engine operation one atomic step, in every reachable state
\* each unordered pair of users has at most one Friendship row, and that row
\* has user_id_1 = min of the pair.
C1_UniqueCanonicalPair ==
    \A a \in UserIds, b \in UserIds :
        /\ Cardinality(PairRows(Friendships, a, b)) <= 1
        /\ \A f \in PairRows(Friendships, a, b) : f.user_id_1 = Min(a, b)

\* C1 witness: a second request for a pair that has a row, sent against the
\* stored order, has been refused while two pairs have rows
C1_Witness ==
    /\ response.op = "send_friend_request"
    /\ response.code = 400
    /\ Cardinality(Friendships) = 2
    /\ \E f \in Friendships, u \in Users :
        /\ u.firebase_uid = response.uid
        /\ f.user_id_1 = response.arg
        /\ f.user_id_2 = u.user_id
        /\ f.requested_by = f.user_id_1

\* C2: the claim as stated: with send_friend_request interleaved statement by
\* statement, no reachable state has two rows for one unordered pair.
C2_UniquePairConcurrent ==
    \A f \in Friendships, g \in Friendships :
        Participants(f) = Participants(g) => f = g

\* C3: every row has user_id_1 < user_id_2, whichever direction the request
\* was sent in; so no row relates a user to themselves.
C3_CanonicalOrder ==
    \A f \in Friendships : f.user_id_1 < f.user_id_2

\* C3 witness: a row whose request went from the larger id to the smaller
C3_Witness ==
    \E f \in Friendships : f.requested_by = f.user_id_2 /\ f.status = "pending"

\* C4: requested_by is one of the row's two users (every state), it is the
\* caller of the send_friend_request that created the row, and it never
\* changes afterwards.
C4_RequestedByIsSender ==
    /\ [](\A f \in Friendships : f.requested_by \in Participants(f))
    /\ [][/\ \A g \in Friendships' :
                g.friendship_id \notin RowIds(Friendships) =>
                    /\ response'.op = "send_friend_request"
                    /\ CallerIds = {g.requested_by}
          /\ \A f \in Friendships, g \in Friendships' :
                f.friendship_id = g.friendship_id =>
                    g.requested_by = f.requested_by]_vars

\* C4 witness: the caller with the larger id has just created a row
C4_Witness ==
    /\ response.op = "send_friend_request"
    /\ response.code = 201
    /\ \E f \in Friendships, u \in Users :
        /\ response.body = {FriendshipResult(f)}
        /\ u.firebase_uid = response.uid
        /\ f.requested_by = u.user_id
        /\ f.user_id_2 = u.user_id

\* C5: a row is created pending, its status is always pending or accepted, an
\* accepted row was pending earlier under the same id, and an accepted row
\* stays accepted for as long as it exists.
C5_StatusOnlyAdvances ==
    /\ [](\A f \in Friendships :
            /\ f.status \in {"pending", "accepted"}
            /\ f.status = "accepted" => f.friendship_id \in everPending)
    /\ [][/\ \A g \in Friendships' :
                g.friendship_id \notin RowIds(Friendships) =>
                    g.status = "pending"
          /\ \A f \in Friendships, g \in Friendships' :
                (f.friendship_id = g.friendship_id /\ f.status = "accepted")
                    => g.status = "accepted"]_vars

\* C5 witness: an accept on an accepted row has been refused and the row is
\* still accepted
C5_Witness ==
    /\ response.op = "accept_friend_request"
    /\ response.code = 400
    /\ \E f \in Friendships :
        f.friendship_id = response.arg /\ f.status = "accepted"

\* C6: the claim as stated: a pending row becomes accepted only in an accept
\* call whose caller is not the row's requested_by.
C6_AcceptOnlyByRecipient ==
    [][\A f \in Friendships, g \in Friendships' :
            (/\ f.friendship_id = g.friendship_id
             /\ f.status = "pending"
             /\ g.status = "accepted")
            => /\ response'.op = "accept_friend_request"
               /\ f.requested_by \notin CallerIds]_vars

\* C7: accept, reject and remove_friend called by a user who is not one of
\* the addressed row's two users answer 403 and leave the table as it is, and
\* a row is changed or deleted only in a call by one of its two users.
C7_OnlyParticipantsAct ==
    [][/\ \A f \in Friendships :
            (/\ response'.op \in IdOps
             /\ response'.arg = f.friendship_id
             /\ CallerIds # {}
             /\ CallerIds \cap Participants(f) = {})
            => (response'.code = 403 /\ Friendships' = Friendships)
       /\ \A f \in Friendships :
            f \notin Friendships' => CallerIds \cap Participants(f) # {}]_vars

\* C7 witness: a third user's call on an existing row has been answered 403
C7_Witness ==
    /\ response.op \in IdOps
    /\ response.code = 403
    /\ \E f \in Friendships, u \in Users :
        /\ f.friendship_id = response.arg
        /\ u.firebase_uid = response.uid
        /\ u.user_id \notin Participants(f)

\* C8: send_friend_request between two users whose pair has a row answers 400
\* and inserts nothing, whoever of the two calls: "already friends" when the
\* row is accepted, "already pending" when it is pending.
C8_ExistingRowRefused ==
    [][\A a \in Users, b \in Users :
            (/\ response'.op = "send_friend_request"
             /\ response'.uid = a.firebase_uid
             /\ response'.arg = b.user_id
             /\ a.user_id # b.user_id
             /\ PairRows(Friendships, a.user_id, b.user_id) # {})
            => /\ Friendships' = Friendships
               /\ nextFriendshipId' = nextFriendshipId
               /\ response'.code = 400
               /\ \A f \in PairRows(Friendships, a.user_id, b.user_id) :
                    response'.detail =
                        IF f.status = "accepted"
                        THEN "You are already friends with this user"
                        ELSE "Friend request already pending"]_vars

\* C8 witness: the target of a pending request has sent a request back and
\* was refused
C8_Witness ==
    /\ response.op = "send_friend_request"
    /\ response.code = 400
    /\ response.detail = "Friend request already pending"
    /\ \E f \in Friendships, u \in Users :
        /\ u.firebase_uid = response.uid
        /\ Participants(f) = {u.user_id, response.arg}
        /\ f.requested_by = response.arg

\* C9: send_friend_request inserts nothing and answers 404 when the caller's
\* identity resolves to no user, 404 when the target id has no user, and 400
\* when the target is the caller.
C9_SendPreconditions ==
    [][(response'.op = "send_friend_request" /\ response'.uid # NoHeader) =>
        /\ CallerIds = {} =>
            /\ response'.code = 404
            /\ Friendships' = Friendships
        /\ (CallerIds # {} /\ \A u \in Users : u.user_id # response'.arg) =>
            /\ response'.code = 404
            /\ Friendships' = Friendships
        /\ response'.arg \in CallerIds =>
            /\ response'.code = 400
            /\ Friendships' = Friendships]_vars

\* C9 witness: a request to oneself has been refused while another user exists
C9_Witness ==
    /\ response.op = "send_friend_request"
    /\ response.code = 400
    /\ Cardinality(Users) >= 2
    /\ \E u \in Users :
        u.firebase_uid = response.uid /\ u.user_id = response.arg

\* C10: send_friend_request between two distinct users whose pair has no row
\* adds exactly the row (new id, min, max, caller, pending), leaves the other
\* rows as they are, and returns that row.
C10_SendCreatesRow ==
    [][\A a \in Users, b \in Users :
            (/\ response'.op = "send_friend_request"
             /\ response'.uid = a.firebase_uid
             /\ response'.arg = b.user_id
             /\ a.user_id # b.user_id
             /\ PairRows(Friendships, a.user_id, b.user_id) = {})
            => \E id \in FriendshipIds \ (RowIds(Friendships) \cup everPending) :
                /\ Friendships' = Friendships \cup
                    {[friendship_id |-> id,
                      user_id_1 |-> Min(a.user_id, b.user_id),
                      user_id_2 |-> Max(a.user_id, b.user_id),
                      requested_by |-> a.user_id,
                      status |-> "pending"]}
                /\ response'.code = 201
                /\ response'.body =
                    {[friendship_id |-> id,
                      user_id_1 |-> Min(a.user_id, b.user_id),
                      user_id_2 |-> Max(a.user_id, b.user_id),
                      status |-> "pending"]}]_vars

\* C10 witness: a second row has been created beside an accepted one, by the
\* user with the larger id of its pair
C10_Witness ==
    /\ response.op = "send_friend_request"
    /\ response.code = 201
    /\ \E f \in Friendships, g \in Friendships, u \in Users :
        /\ f.status = "accepted"
        /\ g.status = "pending"
        /\ response.body = {FriendshipResult(g)}
        /\ u.firebase_uid = response.uid
        /\ g.user_id_2 = u.user_id
        /\ g.user_id_1 = response.arg

\* C11: a successful reject or remove_friend leaves no row for the pair of the
\* row it addressed, and a send_friend_request between two users whose pair
\* has had its row removed and has no row now answers 201 and adds a pending
\* row requested by the caller, in either direction.
C11_PairNotExhausted ==
    [][/\ \A f \in Friendships :
            (/\ response'.op \in {"reject_friend_request", "remove_friend"}
             /\ response'.arg = f.friendship_id
             /\ response'.code = 200)
            => PairRows(Friendships', f.user_id_1, f.user_id_2) = {}
       /\ \A a \in Users, b \in Users :
            (/\ response'.op = "send_friend_request"
             /\ response'.uid = a.firebase_uid
             /\ response'.arg = b.user_id
             /\ a.user_id # b.user_id
             /\ {a.user_id, b.user_id} \in removedPairs
             /\ PairRows(Friendships, a.user_id, b.user_id) = {})
            => /\ response'.code = 201
               /\ \E g \in Friendships' \ Friendships :
                    /\ Participants(g) = {a.user_id, b.user_id}
                    /\ g.requested_by = a.user_id
                    /\ g.status = "pending"
                    /\ PairRows(Friendships', a.user_id, b.user_id) = {g}]_vars

\* C11 witness: the pair of a row that was removed has a new
\* pending row, requested by the user who did not request the first one
C11_Witness ==
    /\ response.op = "send_friend_request"
    /\ response.code = 201
    /\ \E g \in Friendships :
        /\ response.body = {FriendshipResult(g)}
        /\ Participants(g) \in removedPairs
        /\ g.status = "pending"
        /\ g.friendship_id > 1
        /\ g.requested_by = g.user_id_2

\* C14: accept_friend_request by a participant on a row that is not pending
\* answers 400 "already accepted" and leaves the table as it was; on a pending
\* row it answers 200 and sets that row, and no other, to accepted. So every
\* accept after a successful one is refused, whichever participant calls.
C14_AcceptOnlyFromPending ==
    [][\A f \in Friendships, u \in Users :
            (/\ response'.op = "accept_friend_request"
             /\ response'.arg = f.friendship_id
             /\ response'.uid = u.firebase_uid
             /\ u.user_id \in Participants(f))
            => IF f.status = "pending"
               THEN /\ response'.code = 200
                    /\ Friendships' = (Friendships \ {f}) \cup
                                       {[f EXCEPT !.status = "accepted"]}
               ELSE /\ response'.code = 400
                    /\ response'.detail = "Friend request is already accepted"
                    /\ Friendships' = Friendships]_vars

\* C14 witness: the user a request was sent to has accepted again a row that
\* is accepted, and was refused
C14_Witness ==
    /\ response.op = "accept_friend_request"
    /\ response.code = 400
    /\ \E f \in Friendships, u \in Users :
        /\ f.friendship_id = response.arg
        /\ f.status = "accepted"
        /\ u.firebase_uid = response.uid
        /\ u.user_id \in Participants(f)
        /\ u.user_id # f.requested_by

\* C15: accept_friend_request, reject_friend_request and remove_friend called
\* with an identity header and a friendship id that no row has answer 404 and
\* leave the Friendships table as it was, also when the id had a row before.
C15_MissingRowNotFound ==
    [][(/\ response'.op \in IdOps
        /\ ~HeaderMissing(response'.uid)
        /\ response'.arg \notin RowIds(Friendships))
       => /\ response'.code = 404
          /\ Friendships' = Friendships]_vars

\* C15 witness: a known user addressed the id of a row deleted earlier, while
\* another row is stored, and got 404
C15_Witness ==
    /\ response.op \in IdOps
    /\ response.code = 404
    /\ response.detail \in {"Friend request not found", "Friendship not found"}
    /\ response.arg \in everPending \ RowIds(Friendships)
    /\ Friendships # {}

\* C16: reject_friend_request by a participant of the addressed row answers
\* 200 and deletes that row and no other, whatever the row's status and
\* whichever participant requested it.
C16_RejectDeletesRow ==
    [][\A f \in Friendships, u \in Users :
            (/\ response'.op = "reject_friend_request"
             /\ response'.arg = f.friendship_id
             /\ response'.uid = u.firebase_uid
             /\ u.user_id \in Participants(f))
            => /\ response'.code = 200
               /\ Friendships' = Friendships \ {f}]_vars

\* C16 witness: a reject has deleted the row it addressed and an accepted row
\* of the caller is still stored
C16_Witness ==
    /\ response.op = "reject_friend_request"
    /\ response.code = 200
    /\ response.arg \in everPending \ RowIds(Friendships)
    /\ \E g \in Friendships, u \in Users :
        /\ u.firebase_uid = response.uid
        /\ u.user_id \in Participants(g)
        /\ g.status = "accepted"

\* the outcomes of a call addressed to friendship id, as <<status code,
\* table left>>: deleted, or Unauthenticated, Forbidden or NotFound with the
\* table as it is
DeleteOutcomes(id) ==
    {<<200, {f \in Friendships : f.friendship_id # id}>>}
        \cup {<<c, Friendships>> : c \in {401, 403, 404}}

\* C17: in every reachable state, for every header and friendship id,
\* reject_friend_request and remove_friend can end with the same status codes
\* and Friendships tables, and with no others: each answers 200 with the row
\* deleted, or 401, 403 or 404 with the table as it was, whatever the status
\* of the row.
C17_RejectEqualsRemove ==
    \A h \in Headers, id \in FriendshipIds :
        /\ \A o \in DeleteOutcomes(id) :
            ENABLED (/\ reject_friend_request(h, id)
                     /\ <<response'.code, Friendships'>> = o)
            <=> ENABLED (/\ remove_friend(h, id)
                         /\ <<response'.code, Friendships'>> = o)
        /\ ~ENABLED (/\ reject_friend_request(h, id)
                     /\ <<response'.code, Friendships'>>
                            \notin DeleteOutcomes(id))
        /\ ~ENABLED (/\ remove_friend(h, id)
                     /\ <<response'.code, Friendships'>>
                            \notin DeleteOutcomes(id))

\* C17 witness: a pending row and an accepted row are stored, and a
\* participant of each can delete it under either name
C17_Witness ==
    \E f \in Friendships, g \in Friendships, u \in Users, v \in Users :
        /\ f.status = "pending"
        /\ g.status = "accepted"
        /\ u.user_id \in Participants(f)
        /\ v.user_id \in Participants(g)
        /\ ENABLED (/\ remove_friend(u.firebase_uid, f.friendship_id)
                    /\ response'.code = 200
                    /\ Friendships' = Friendships \ {f})
        /\ ENABLED (/\ reject_friend_request(v.firebase_uid, g.friendship_id)
                    /\ response'.code = 200
                    /\ Friendships' = Friendships \ {g})

\* the user ids get_friends reports as friends of user id me
FriendIds(me) ==
    {r.friend_user_id : r \in FriendsQuery(Friendships, Users, me)}

\* C12: in every reachable state each pending row is listed, once, by exactly
\* one of get_pending_requests and get_sent_requests for each of its two
\* participants: by get_sent_requests, with the other participant as
\* recipient, for the user in requested_by, and by get_pending_requests, with
\* requested_by as sender, for the other one. A 200 response of either
\* handler carries that list for its caller.
C12_IncomingXorOutgoing ==
    /\ \A f \in Friendships :
        f.status = "pending" =>
            \A P \in Participants(f) :
                LET inc == {r \in PendingRequestsQuery(Friendships, Users, P) :
                                r.friendship_id = f.friendship_id}
                    out == {r \in SentRequestsQuery(Friendships, Users, P) :
                                r.friendship_id = f.friendship_id}
                IN  IF P = f.requested_by
                    THEN /\ inc = {}
                         /\ Cardinality(out) = 1
                         /\ \A r \in out :
                                /\ r.recipient_id \in Participants(f) \ {P}
                                /\ r.recipient_user_id = r.recipient_id
                    ELSE /\ out = {}
                         /\ Cardinality(inc) = 1
                         /\ \A r \in inc :
                                /\ r.sender_id = f.requested_by
                                /\ r.sender_user_id = f.requested_by
    /\ \A u \in Users :
        (/\ response.code = 200
         /\ response.uid = u.firebase_uid)
        => /\ response.op = "get_pending_requests" =>
                response.body =
                    PendingRequestsQuery(Friendships, Users, u.user_id)
           /\ response.op = "get_sent_requests" =>
                response.body =
                    SentRequestsQuery(Friendships, Users, u.user_id)

\* C12 witness: one request is stored and its target has listed its incoming
\* requests: one entry, whose sender is the other user, and nothing outgoing
C12_Witness ==
    /\ response.op = "get_pending_requests"
    /\ response.code = 200
    /\ Cardinality(Friendships) = 1
    /\ Cardinality(response.body) = 1
    /\ \E u \in Users, f \in Friendships :
        /\ u.firebase_uid = response.uid
        /\ u.user_id \in Participants(f) \ {f.requested_by}
        /\ \A r \in response.body : r.sender_id = f.requested_by
        /\ SentRequestsQuery(Friendships, Users, u.user_id) = {}
        /\ PendingRequestsQuery(Friendships, Users, f.requested_by) = {}
        /\ Cardinality(SentRequestsQuery(Friendships, Users,
                                         f.requested_by)) = 1

\* C13: in every reachable state get_friends lists for each user exactly the
\* accepted rows the user takes part in, once each, with the other
\* participant as the friend; so being listed is symmetric, no pending row is
\* listed, and after a remove_friend no list holds the removed row. A 200
\* response of get_friends carries that list for its caller.
C13_FriendsAreAcceptedRows ==
    /\ \A P \in Users :
        LET rows == FriendsQuery(Friendships, Users, P.user_id)
            mine == {f \in Friendships : /\ f.status = "accepted"
                                         /\ P.user_id \in Participants(f)}
        IN  /\ {r.friendship_id : r \in rows} = RowIds(mine)
            /\ Cardinality(rows) = Cardinality(mine)
            /\ \A r \in rows, f \in mine :
                r.friendship_id = f.friendship_id
                => /\ {r.friend_user_id} = Participants(f) \ {P.user_id}
                   /\ r.friend_id = r.friend_user_id
                   /\ r.status = "accepted"
    /\ \A A \in Users, B \in Users :
        B.user_id \in FriendIds(A.user_id) <=> A.user_id \in FriendIds(B.user_id)
    /\ (response.op = "remove_friend" /\ response.code = 200)
        => \A P \in Users :
            \A r \in FriendsQuery(Friendships, Users, P.user_id) :
                r.friendship_id # response.arg
    /\ \A u \in Users :
        (/\ response.op = "get_friends"
         /\ response.code = 200
         /\ response.uid = u.firebase_uid)
        => response.body = FriendsQuery(Friendships, Users, u.user_id)

\* C13 witness: a user who is user_id_2 of an accepted row and takes part in a
\* pending row has listed their friends: one entry, the user in user_id_1
C13_Witness ==
    /\ response.op = "get_friends"
    /\ response.code = 200
    /\ Cardinality(response.body) = 1
    /\ \E u \in Users, f \in Friendships, g \in Friendships :
        /\ u.firebase_uid = response.uid
        /\ f.status = "accepted"
        /\ f.user_id_2 = u.user_id
        /\ g.status = "pending"
        /\ u.user_id \in Participants(g)
        /\ \A r \in response.body : r.friend_user_id = f.user_id_1

\* C18: the body of a 200 response of search_users never holds the caller,
\* and each user in it carries as friendship_status the status of the
\* Friendships row of the pair {caller, user}, whoever requested it, or NULL
\* when the pair has no row.
C18_SearchAnnotatesStatus ==
    \A u \in Users :
        (/\ response.op = "search_users"
         /\ response.code = 200
         /\ response.uid = u.firebase_uid)
        => \A r \in response.body :
            /\ r.user_id # u.user_id
            /\ IF PairRows(Friendships, u.user_id, r.user_id) = {}
               THEN r.friendship_status = Null
               ELSE \A f \in PairRows(Friendships, u.user_id, r.user_id) :
                        r.friendship_status = f.status

\* C18 witness: a caller whose own row matches q has searched and got two
\* users, one marked accepted and one marked pending by a request the caller
\* received
C18_Witness ==
    /\ response.op = "search_users"
    /\ response.code = 200
    /\ \E u \in Users, f \in Friendships :
        /\ u.firebase_uid = response.uid
        /\ Matches[u.username, response.arg]
        /\ f.status = "pending"
        /\ f.requested_by # u.user_id
        /\ [user_id |-> f.requested_by, friendship_status |-> "pending"]
                \in response.body
    /\ \E r \in response.body : r.friendship_status = "accepted"

\* C19: no user in the body of a 200 response of search_users has an accepted
\* Friendships row with the caller (the docstring: "excluding current user and
\* existing friends").
C19_SearchExcludesFriends ==
    \A u \in Users :
        (/\ response.op = "search_users"
         /\ response.code = 200
         /\ response.uid = u.firebase_uid)
        => \A r \in response.body :
            \A f \in PairRows(Friendships, u.user_id, r.user_id) :
                f.status # "accepted"

\* C20: with accept_friend_request run statement by statement in concurrent
\* requests, a request that has passed the status test answers 200 with the
\* row accepted, whatever the other requests have written since: two requests
\* that read the same row as pending both answer 200, none 400, and the row
\* is accepted.
C20_ConcurrentAcceptsBothSucceed ==
    [][\A p \in Procs :
            (pc[p] \in {"update", "result"} /\ pc'[p] = "idle")
            => /\ response'.op = "accept_friend_request"
               /\ response'.arg = loc[p].fid
               /\ response'.code = 200
               /\ \E f \in Friendships' :
                    /\ f.friendship_id = loc[p].fid
                    /\ f.status = "accepted"
                    /\ response'.body = {FriendshipResult(f)}]_vars

\* C20 witness: one accept of a row has answered 200 while another request,
\* which read the same row as pending, has issued its UPDATE too and is about
\* to answer
C20_Witness ==
    /\ response.op = "accept_friend_request"
    /\ response.code = 200
    /\ \E q \in Procs, f \in Friendships :
        /\ pc[q] = "result"
        /\ loc[q].fid = response.arg
        /\ f.friendship_id = response.arg
        /\ f.status = "accepted"

\* the rows of U with user id id
RowsOfId(U, id) == {u \in U : u.user_id = id}

\* the rows of U with identity uid
RowsOfUid(U, uid) == {u \in U : u.firebase_uid = uid}

\* C21: after every step each identity has at most one row of Users; a
\* sync_firebase_user for an identity that has a row answers 200 with the id
\* of that row and adds no row, it answers 201 only when the identity had no
\* row, and a create_user for an identity that has a row answers 400 and
\* leaves Users as it was.
C21_OneUserPerIdentity ==
    [][/\ \A uid \in Uids : Cardinality(RowsOfUid(Users', uid)) <= 1
       /\ (/\ response'.op = "sync_firebase_user"
           /\ ~HeaderMissing(response'.uid))
          => IF RowsOfUid(Users, response'.uid) # {}
             THEN /\ response'.code = 200
                  /\ response'.body =
                        {[user_id |-> u.user_id] :
                            u \in RowsOfUid(Users, response'.uid)}
                  /\ {u.user_id : u \in Users'} = {u.user_id : u \in Users}
                  /\ Cardinality(Users') = Cardinality(Users)
             ELSE /\ response'.code = 201
                  /\ Cardinality(Users') = Cardinality(Users) + 1
       /\ (/\ response'.op = "create_user"
           /\ RowsOfUid(Users, response'.uid) # {})
          => /\ response'.code = 400
             /\ Users' = Users]_vars

\* C21 witness: an identity whose row a later sync has rewritten called
\* create_user and was refused, and the id of its row is still 1
C21_Witness ==
    /\ response.op = "create_user"
    /\ response.code = 400
    /\ \E u \in Users :
        /\ u.firebase_uid = response.uid
        /\ u.first_name = "zed"
        /\ u.user_id = 1
    /\ Cardinality(Users) = 2

\* C22: no step changes the firebase_uid of a row that keeps its user_id, and
\* a successful sync_firebase_user of an existing user or update_user leaves
\* every row but the caller's as it was and keeps the user_id and the
\* firebase_uid of the caller's row; the sync keeps its role as well.
C22_IdAndIdentityImmutable ==
    [][/\ \A u \in Users, v \in Users' :
            v.user_id = u.user_id => v.firebase_uid = u.firebase_uid
       /\ \A c \in Users :
            (/\ response'.op \in {"sync_firebase_user", "update_user"}
             /\ response'.code = 200
             /\ response'.uid = c.firebase_uid)
            => /\ Users \ {c} \subseteq Users'
               /\ Cardinality(Users') = Cardinality(Users)
               /\ \A v \in Users' \ (Users \ {c}) :
                    /\ v.user_id = c.user_id
                    /\ v.firebase_uid = c.firebase_uid
                    /\ response'.op = "sync_firebase_user" => v.role = c.role]_vars

\* C22 witness: a sync has rewritten the first name of an admin's row, and
\* the row of the other user holds the name it was created with
C22_Witness ==
    /\ response.op = "sync_firebase_user"
    /\ response.code = 200
    /\ \E u \in Users, v \in Users :
        /\ u.firebase_uid = response.uid
        /\ u.first_name = "zed"
        /\ u.role = "admin"
        /\ v.user_id # u.user_id
        /\ v.first_name = Profile(v.firebase_uid).first_name

\* C23: in every reachable state the role of every row of Users is user,
\* admin or moderator.
C23_RoleInEnumeration ==
    \A u \in Users : u.role \in {"user", "admin", "moderator"}

\* C24: update_user_role called by a caller whose role is not admin answers
\* 403 and leaves Users as it was, and no other operation called by a user
\* whose stored role is not admin changes the role of any row, the caller's
\* included.
C24_RoleUpdatesAdminOnly ==
    [][/\ (/\ response'.op = "update_user_role"
           /\ ~HeaderMissing(response'.uid)
           /\ response'.arg.user_role # "admin")
          => /\ response'.code = 403
             /\ Users' = Users
       /\ \A c \in Users :
            (/\ response'.op # "update_user_role"
             /\ response'.uid = c.firebase_uid
             /\ c.role # "admin")
            => \A u \in Users, v \in Users' :
                v.user_id = u.user_id => v.role = u.role]_vars

\* C25: update_user and delete_user called with a header that resolves to no
\* user, or to a user whose id is not the one addressed, answer 403 and leave
\* Users as it was; when one of them changes Users the caller's own row, and
\* no other, is rewritten or deleted.
C25_OwnerOnly ==
    [][(/\ response'.op \in {"update_user", "delete_user"}
        /\ ~HeaderMissing(response'.uid))
       => /\ (\A c \in RowsOfUid(Users, response'.uid) :
                c.user_id # response'.arg)
             => /\ response'.code = 403
                /\ Users' = Users
          /\ Users' # Users
             => \E c \in RowsOfUid(Users, response'.uid) :
                    /\ c.user_id = response'.arg
                    /\ Users \ {c} \subseteq Users'
                    /\ \A v \in Users' \ Users : v.user_id = c.user_id]_vars

\* C25 witness: a user addressed an update to the row of another user and
\* got 403
C25_Witness ==
    /\ response.op = "update_user"
    /\ response.code = 403
    /\ \E c \in Users, u \in Users :
        /\ c.firebase_uid = response.uid
        /\ u.user_id = response.arg
        /\ u.user_id # c.user_id
        /\ u.first_name # "zed"
        /\ u.role = "user"

\* C26: get_user_by_id and get_user_by_username for a user that has no row
\* answer 404, update_user and delete_user called by a caller who has a row
\* and addressed to a user id that has no row answer 404, and addressed to
\* the row of another user they answer 403.
C26_MissingUserNotFound ==
    [][/\ (/\ response'.op = "get_user_by_id"
           /\ RowsOfId(Users, response'.arg) = {})
          => response'.code = 404
       /\ (/\ response'.op = "get_user_by_username"
           /\ ~HeaderMissing(response'.uid)
           /\ SelectUserByUsername(Users, response'.arg) = {})
          => response'.code = 404
       /\ (/\ response'.op \in {"update_user", "delete_user"}
           /\ RowsOfUid(Users, response'.uid) # {})
          => IF RowsOfId(Users, response'.arg) = {}
             THEN response'.code = 404
             ELSE (\A c \in RowsOfUid(Users, response'.uid) :
                        c.user_id # response'.arg)
                  => response'.code = 403]_vars

\* the ids of ids that come before the first one the catalog does not hold
ValidPrefix(ids) ==
    SubSeq(ids, 1, (CHOOSE k \in MissingAt(ids) :
                        \A m \in MissingAt(ids) : k <= m) - 1)

\* C27: after an add_user_interests that answers 201 the rows of the user
\* are the ids of the request, as many rows as ids, whatever the rows were
\* before; the same request made when the rows are already those ids leaves
\* UserInterests as it is; the rows of every other user are unchanged.
C27_ReplacementWholesale ==
    [][(/\ response'.op = "add_user_interests"
        /\ response'.code = 201)
       => /\ UserInterests'[response'.arg.user_id] = response'.arg.interest_ids
          /\ Len(UserInterests'[response'.arg.user_id])
                = Len(response'.arg.interest_ids)
          /\ UserInterests[response'.arg.user_id] = response'.arg.interest_ids
                => UserInterests' = UserInterests
          /\ \A u \in UserIds \ {response'.arg.user_id} :
                UserInterests'[u] = UserInterests[u]]_vars

\* C27 witness: a user has replaced its rows by <<2, 1>> while another user
\* holds <<1, 2>>
C27_Witness ==
    /\ response.op = "add_user_interests"
    /\ response.code = 201
    /\ response.arg.interest_ids = <<2, 1>>
    /\ UserInterests[response.arg.user_id] = <<2, 1>>
    /\ \E u \in UserIds \ {response.arg.user_id} : UserInterests[u] = <<1, 2>>

\* C28: an add_user_interests of the owner whose ids hold one that is not in
\* the catalog answers 400, and the rows of the user afterwards are the ids
\* that come before the failing one: the prior rows are gone.
C28_PartialReplacementKept ==
    [][(/\ response'.op = "add_user_interests"
        /\ \E c \in RowsOfUid(Users, response'.uid) :
                c.user_id = response'.arg.user_id
        /\ MissingAt(response'.arg.interest_ids) # {})
       => /\ response'.code = 400
          /\ UserInterests'[response'.arg.user_id]
                = ValidPrefix(response'.arg.interest_ids)]_vars

\* C28 amended: such a call answers 400 and commits nothing: the rows of the
\* user afterwards are either the prior rows (the store discards the
\* uncommitted statements when the connection closes) or the ids that come
\* before the failing one (the store has no transactions), never anything
\* else, and the rows of every other user are unchanged.
C28_FailedReplacementUncommitted ==
    [][(/\ response'.op = "add_user_interests"
        /\ \E c \in RowsOfUid(Users, response'.uid) :
                c.user_id = response'.arg.user_id
        /\ MissingAt(response'.arg.interest_ids) # {})
       => /\ response'.code = 400
          /\ UserInterests'[response'.arg.user_id]
                \in {UserInterests[response'.arg.user_id],
                     ValidPrefix(response'.arg.interest_ids)}
          /\ \A u \in UserIds \ {response'.arg.user_id} :
                UserInterests'[u] = UserInterests[u]]_vars

\* C28 witness: a replacement by <<1, 3>> was refused and the user still
\* holds the rows <<2, 1>> it had before
C28_Witness ==
    /\ response.op = "add_user_interests"
    /\ response.code = 400
    /\ response.arg.interest_ids = <<1, 3>>
    /\ UserInterests[response.arg.user_id] = <<2, 1>>

\* the operations of the Schedule Ledger and the user id a call addresses
ScheduleOps ==
    {"get_user_schedules", "create_user_schedule", "delete_user_schedule"}
AddressedUser(r) ==
    IF r.op = "delete_user_schedule" THEN r.arg.user_id ELSE r.arg

\* C29: get_user_schedules, create_user_schedule and delete_user_schedule
\* called with a header that resolves to no user, or to a user other than the
\* one addressed, answer 403 and leave UserSchedule as it was; a list
\* returns only entries of the caller; an entry that is added belongs to the
\* caller; a delete removes the entries whose schedule id and owner both
\* match the call, and no entry of another user.
C29_SchedulesOwnerScoped ==
    [][(/\ response'.op \in ScheduleOps
        /\ ~HeaderMissing(response'.uid))
       => /\ (\A c \in RowsOfUid(Users, response'.uid) :
                c.user_id # AddressedUser(response'))
             => /\ response'.code = 403
                /\ UserSchedule' = UserSchedule
                /\ nextScheduleId' = nextScheduleId
          /\ \A c \in RowsOfUid(Users, response'.uid) :
                /\ response'.op = "get_user_schedules"
                    => \A r \in response'.body : r.user_id = c.user_id
                /\ \A r \in UserSchedule' \ UserSchedule : r.user_id = c.user_id
                /\ \A r \in UserSchedule \ UserSchedule' :
                    /\ r.user_id = c.user_id
                    /\ response'.op = "delete_user_schedule"
                    /\ r.schedule_id = response'.arg.schedule_id
          /\ (/\ response'.op = "delete_user_schedule"
              /\ response'.code = 200)
             => \A r \in UserSchedule :
                    (/\ r.schedule_id = response'.arg.schedule_id
                     /\ r.user_id = response'.arg.user_id)
                    => r \notin UserSchedule']_vars

\* C29 witness: a user called delete on its own id with the schedule id of
\* an entry of another user, got 200, and the entry is still there
C29_Witness ==
    /\ response.op = "delete_user_schedule"
    /\ response.code = 200
    /\ \E r \in UserSchedule :
        /\ r.schedule_id = response.arg.schedule_id
        /\ r.user_id # response.arg.user_id

\* C30: after every completed call of sync_firebase_user,
\* send_friend_request, add_user_interests or create_user_schedule that
\* returned a result or an HTTP error the store connection of the call is
\* not open.
C30_ConnectionReleased ==
    response.code \in {200, 201, 400, 401, 403, 404} => cnx # "open"

\* C31: in a call made while the Identity Adapter fails, a
\* sync_firebase_user or create_user of an identity that has no row answers
\* 201 and the row is in Users afterwards; an update_user that rewrites a
\* row answers 200; an update_user_role by an admin with an accepted role for
\* a user that exists answers 200 with the warning and the row holds the
\* role; in each case the claims are as they were.
C31_PropagationBestEffort ==
    [][(~firebase /\ firebase' = firebase)
       => /\ (/\ response'.op \in {"sync_firebase_user", "create_user"}
              /\ ~HeaderMissing(response'.uid)
              /\ RowsOfUid(Users, response'.uid) = {})
             => /\ response'.code = 201
                /\ \E u \in RowsOfUid(Users', response'.uid) :
                        /\ u.role = "user"
                        /\ response'.body = {[user_id |-> u.user_id]}
                /\ claims' = claims
          /\ (/\ response'.op = "update_user"
              /\ Users' # Users)
             => /\ response'.code = 200
                /\ claims' = claims
          /\ (/\ response'.op = "update_user_role"
              /\ ~HeaderMissing(response'.uid)
              /\ response'.arg.user_role = "admin"
              /\ response'.arg.role \in {"user", "admin", "moderator"}
              /\ RowsOfId(Users, response'.arg.user_id) # {})
             => /\ response'.code = 200
                /\ response'.detail = "Role updated in database, but Firebase custom claim update failed"
                /\ \A u \in RowsOfId(Users', response'.arg.user_id) :
                        u.role = response'.arg.role
                /\ claims' = claims]_vars

\* C31 witness: an admin role update answered 200 with the warning, the row
\* holds moderator and the claim of that identity is still user
C31_Witness ==
    /\ response.op = "update_user_role"
    /\ response.code = 200
    /\ response.detail = "Role updated in database, but Firebase custom claim update failed"
    /\ \E u \in RowsOfId(Users, response.arg.user_id) :
        /\ u.role = "moderator"
        /\ claims[u.firebase_uid] = "user"

\* the operations that record the store connection of the call
ConnectionOps ==
    {"add_user_interests", "get_user_interests", "get_user_schedules",
     "create_user_schedule", "delete_user_schedule"}

\* C32: a call of any handler but get_user_by_id with no identity header
\* answers 401 with no result and leaves Users, Friendships, UserInterests,
\* UserSchedule and their counters as they were, acquiring no connection;
\* get_user_by_id called with no header or with the identity system answers
\* 200 with the row when the user exists and 404 when it does not.
C32_UnauthenticatedRefused ==
    [][/\ (/\ response'.uid = NoHeader
           /\ response'.op # "get_user_by_id")
          => /\ response'.code = 401
             /\ response'.body = NoBody
             /\ UNCHANGED <<Users, nextUserId, Friendships, nextFriendshipId,
                            UserInterests, UserSchedule, nextScheduleId>>
             /\ response'.op \in ConnectionOps => cnx' = "none"
       /\ (/\ response'.op = "get_user_by_id"
           /\ response'.uid \in {NoHeader, "system"})
          => IF RowsOfId(Users, response'.arg) = {}
             THEN response'.code = 404
             ELSE /\ response'.code = 200
                  /\ \A r \in response'.body : r.user_id = response'.arg]_vars

\* C32 witness: a delete_user of an existing user with no header was answered
\* 401 while the user has a friendship, an interest and a schedule entry
C32_Witness ==
    /\ response.op = "delete_user"
    /\ response.uid = NoHeader
    /\ response.code = 401
    /\ RowsOfId(Users, response.arg) # {}
    /\ \E f \in Friendships : response.arg \in {f.user_id_1, f.user_id_2}
    /\ UserInterests[response.arg] # <<>>
    /\ \E r \in UserSchedule : r.user_id = response.arg

\* the fixed-segment paths and the handler each is registered for
FixedPaths ==
    {[method |-> "GET", path |-> <<"me">>, endpoint |-> "get_current_user"],
     [method |-> "GET", path |-> <<"interests">>, endpoint |-> "get_interests"],
     [method |-> "GET", path |-> <<"search">>, endpoint |-> "search_users"],
     [method |-> "GET", path |-> <<"friends">>, endpoint |-> "get_friends"],
     [method |-> "GET", path |-> <<"friends", "requests", "pending">>,
      endpoint |-> "get_pending_requests"],
     [method |-> "GET", path |-> <<"friends", "requests", "sent">>,
      endpoint |-> "get_sent_requests"],
     [method |-> "POST", path |-> <<"friends", "requests">>,
      endpoint |-> "send_friend_request"],
     [method |-> "POST", path |-> <<"sync">>,
      endpoint |-> "sync_firebase_user"]}

\* C33: a request for a fixed-segment path is answered by the handler
\* registered for that path, never by get_user_by_id, get_user_by_username
\* or another route with a path parameter.
C33_FixedPathsReachOwnHandler ==
    \A f \in FixedPaths :
        (request.method = f.method /\ request.path = f.path)
        => response.op = f.endpoint

\* C33 witness: GET /users/me was answered by get_current_user with the row
\* of the caller
C33_Witness ==
    /\ request = [method |-> "GET", path |-> <<"me">>]
    /\ response.op = "get_current_user"
    /\ response.code = 200
    /\ \E u \in Users : u.firebase_uid = response.uid /\ u.username # "me"

\* C34: GET /users/{x} with an integer x is answered by get_user_by_id, and
\* with the username of an existing user, by a caller with an identity, it is
\* answered by get_user_by_username with 200 and the row of that user.
C34_BothCatchAllsReachable ==
    /\ (request.method = "GET" /\ Len(request.path) = 1
        /\ request.path[1] \in Digits)
       => response.op = "get_user_by_id"
    /\ (request.method = "GET" /\ Len(request.path) = 1
        /\ response.uid # NoHeader
        /\ \E u \in Users : u.username = request.path[1])
       => /\ response.op = "get_user_by_username"
          /\ response.code = 200
          /\ \A r \in response.body : r.username = request.path[1]

\* C35: every accept_friend_request that completes with 200 returns the row
\* it addressed, with status accepted; its result is never empty.
C35_AcceptReturnsAcceptedRow ==
    (response.op = "accept_friend_request" /\ response.code = 200)
    => /\ response.body # {}
       /\ \A r \in response.body :
            /\ r.friendship_id = response.arg
            /\ r.status = "accepted"


\* C36: referential integrity of friendships.  In every reachable state,
\* also after an account was deleted, user_id_1, user_id_2 and requested_by
\* of every row of Friendships are the user_id of a row of Users.
C36_FriendshipsReferToUsers ==
    \A f \in Friendships :
        /\ RowsOfId(Users, f.user_id_1) # {}
        /\ RowsOfId(Users, f.user_id_2) # {}
        /\ RowsOfId(Users, f.requested_by) # {}

\* the handlers of the Friendship Engine that write, and those that read
WriteOps ==
    {"send_friend_request", "accept_friend_request",
     "reject_friend_request", "remove_friend"}

ReadOps ==
    {"get_pending_requests", "get_sent_requests", "get_friends",
     "search_users"}

\* C37: a successful accept changes only the status of the row it addresses:
\* the row keeps its id, user_id_1, user_id_2 and requested_by, and every
\* other row is unchanged; a friendship operation that answers with an error
\* and every read (pending, sent, friends, search) leave Friendships
\* unchanged.
C37_AcceptFrame ==
    [][ /\ (response'.op = "accept_friend_request" /\ response'.code = 200)
           => /\ RowIds(Friendships') = RowIds(Friendships)
              /\ \A f \in Friendships :
                    IF f.friendship_id = response'.arg
                        THEN [f EXCEPT !.status = "accepted"] \in Friendships'
                        ELSE f \in Friendships'
              /\ \A f \in Friendships, g \in Friendships' :
                    f.friendship_id = g.friendship_id
                    => /\ g.user_id_1 = f.user_id_1
                       /\ g.user_id_2 = f.user_id_2
                       /\ g.requested_by = f.requested_by
        /\ (response'.op \in WriteOps /\ response'.code >= 400)
           => Friendships' = Friendships
        /\ response'.op \in ReadOps => Friendships' = Friendships
      ]_vars

\* an accept of a request sent by the higher id has succeeded beside
\* another row that stayed pending
C37_AcceptWitness ==
    /\ response.op = "accept_friend_request"
    /\ response.code = 200
    /\ \E f \in Friendships :
        /\ f.friendship_id = response.arg
        /\ f.status = "accepted"
        /\ f.requested_by = f.user_id_2
    /\ \E f \in Friendships : f.status = "pending"

====
